---------------------------- MODULE Spec2Model ----------------------------
(***************************************************************************)
(* Model of circulapp-backend:                                             *)
(*   models/CollectionSchedule.js  (schema, pre-save hook, methods)        *)
(*   routes/municipal.js           (POST /collection-schedule,             *)
(*                                  PATCH .../optimize-route,              *)
(*                                  createRecurringSchedules)              *)
(*   models/Material.js            (pre-save hook)                         *)
(*   models/User.js, routes/auth.js, middleware/auth.js                    *)
(*                                 (register, login, profile)              *)
(*   models/Review.js, routes/reviews.js  (POST /api/reviews)              *)
(*   models/Report.js              (pre-save hook)                         *)
(*                                                                         *)
(* Units.  Coordinates are whole degrees.  JavaScript numbers are doubles; *)
(* the model keeps distances in tenths of a kilometre, rounded down, and   *)
(* durations in tenths of a minute.  A distance between two points with    *)
(* the same latitude or the same longitude is represented exactly.  Dates  *)
(* are whole days.  A request that awaits is a sequence of steps, one per  *)
(* await; `reqs` holds the requests between two steps.                     *)
(***************************************************************************)
EXTENDS Integers, Sequences, FiniteSets, TLC

VARIABLES
  doc,        \* the object a method is called on: a schedule document, a RedisClient
  call,       \* the last call of a method or function: name, arguments, receiver, return value
  schedules,  \* the CollectionSchedule collection: a sequence of stored documents
  materials,  \* the Material collection: a sequence of stored documents
  now,        \* the clock read by `new Date()`, in days
  resp,       \* the last HTTP response or save outcome
  users,      \* the User collection: a set of stored documents
  reviews,    \* the Review collection: a set of stored documents
  reports,    \* the Report collection: a sequence of stored documents
  reqs        \* the requests in flight: each one's position and local variables

methodVars == <<doc, call>>
sysVars == <<schedules, materials, now, resp>>
appVars == <<users, reviews, reports, reqs>>
vars == <<doc, call, schedules, materials, now, resp, users, reviews, reports, reqs>>

---------------------------------------------------------------------------
(* Bounds and input sets *)

MaxLen == 4          \* longest route of SpecMethods
MaxCap == 10         \* largest capacity.current / capacity.maximum of SpecMethods
MaxWeight == 3       \* largest additionalWeight passed to hasCapacity

Lats == {0, 1}
Lngs == {0, 1, 2, 10}
Coords == [lat : Lats, lng : Lngs]

Range(s) == {s[i] : i \in DOMAIN s}

SeqsUpTo(S, n) == UNION {[1..k -> S] : k \in 0..n}

PointStatuses == {"pending", "in_progress", "completed", "skipped"}

\* A route as stored: each point is a subdocument with its own _id; a point
\* given without a status gets the schema's default.
MkRoute(cs) ==
  [i \in 1..Len(cs) |->
     [lat |-> cs[i].lat, lng |-> cs[i].lng, id |-> i,
      status |-> IF "status" \in DOMAIN cs[i] THEN cs[i].status ELSE "pending"]]

---------------------------------------------------------------------------
(* Distance: Math.sqrt(Math.pow(dlat * 111, 2) + Math.pow(dlng * 85, 2)) *)

DistSq(p, q) == ((p.lat - q.lat) * 111) * ((p.lat - q.lat) * 111)
              + ((p.lng - q.lng) * 85) * ((p.lng - q.lng) * 85)

RECURSIVE SqrtSearch(_, _, _)
\* the largest r in lo..hi with r * r <= n
SqrtSearch(n, lo, hi) ==
  IF lo >= hi THEN lo
  ELSE LET mid == (lo + hi + 1) \div 2
       IN IF mid * mid <= n THEN SqrtSearch(n, mid, hi) ELSE SqrtSearch(n, lo, mid - 1)

\* Math.sqrt in tenths, rounded down: floor(10 * sqrt(n))
SqrtTenths(n) == SqrtSearch(100 * n, 0, 46340)

\* the square roots the model needs, computed once
SqrtTable == [n \in {DistSq(p, q) : p \in Coords, q \in Coords} |-> SqrtTenths(n)]

Distance(p, q) ==
  LET n == DistSq(p, q)
  IN IF n \in DOMAIN SqrtTable THEN SqrtTable[n] ELSE SqrtTenths(n)

\* On the model's coordinates the rounding merges no two different distances, so
\* comparing modelled distances orders them as comparing the doubles does.
DistanceOrderExact ==
  \A p \in Coords, q \in Coords, r \in Coords, t \in Coords :
    (DistSq(p, q) < DistSq(r, t)) <=> (Distance(p, q) < Distance(r, t))

\* `let shortestDistance = Infinity`: no distance is below -1, so -1 stands for Infinity
Infinity == -1
\* mutants of the comparison `distance < shortestDistance`
LessThanFarthest(d, s) == s = Infinity \/ d > s
LessThanOrEqual(d, s) == s = Infinity \/ d <= s
LessThan(d, s) == s = Infinity \/ d < s

---------------------------------------------------------------------------
(* collectionScheduleSchema.methods.  Each method is an operator of the     *)
(* receiver `self` and its arguments giving [ret, this]: the value returned *)
(* and the receiver as the call leaves it.                                  *)

RECURSIVE ScanRemainingLastTie(_, _, _, _, _)
\* mutant: among equidistant points the last one scanned wins
ScanRemainingLastTie(remaining, current, i, nearestIndex, shortestDistance) ==
  IF i > Len(remaining) THEN nearestIndex
  ELSE LET distance == Distance(remaining[i], current)
       IN IF shortestDistance = Infinity \/ distance <= shortestDistance
          THEN ScanRemainingLastTie(remaining, current, i + 1, i, distance)
          ELSE ScanRemainingLastTie(remaining, current, i + 1, nearestIndex, shortestDistance)

RECURSIVE ScanRemaining(_, _, _, _, _)
\* remaining.forEach((point, index) => ...) from index i on (1-based here)
ScanRemaining(remaining, current, i, nearestIndex, shortestDistance) ==
  IF i > Len(remaining) THEN nearestIndex
  ELSE LET distance == Distance(remaining[i], current)
       IN IF LessThan(distance, shortestDistance)
          THEN ScanRemaining(remaining, current, i + 1, i, distance)
          ELSE ScanRemaining(remaining, current, i + 1, nearestIndex, shortestDistance)

\* mutant: splices the head whatever the index
SpliceHead(s, k) == Tail(s)
\* remaining.splice(nearestIndex, 1)
Splice(s, k) == [i \in 1..(Len(s) - 1) |-> IF i < k THEN s[i] ELSE s[i + 1]]

RECURSIVE NearestNeighbor(_, _)
\* while (remaining.length > 0) { ... }
NearestNeighbor(optimized, remaining) ==
  IF Len(remaining) = 0 THEN optimized
  ELSE LET current == optimized[Len(optimized)]
           nearestIndex == ScanRemaining(remaining, current, 1, 1, Infinity)
       IN NearestNeighbor(Append(optimized, remaining[nearestIndex]),
                          Splice(remaining, nearestIndex))

\* mutant: rebuilds every point from its coordinates, so its status is the default
optimizeRouteResetStatus(self) ==
  [ret  |-> IF Len(self.route) <= 2 THEN self.route
            ELSE LET r == NearestNeighbor(<<self.route[1]>>, Tail(self.route))
                 IN [i \in DOMAIN r |-> [r[i] EXCEPT !.status = "pending"]],
   this |-> self]

\* mutant: `this.route.slice(2)` leaves the second point out
optimizeRouteSliceTwo(self) ==
  [ret  |-> IF Len(self.route) <= 2 THEN self.route
            ELSE NearestNeighbor(<<self.route[1]>>, Tail(Tail(self.route))),
   this |-> self]

\* mutant: seeds the sequence with the last point instead of the first
optimizeRouteSeedLast(self) ==
  [ret  |-> IF Len(self.route) <= 2 THEN self.route
            ELSE NearestNeighbor(<<self.route[Len(self.route)]>>,
                                 SubSeq(self.route, 1, Len(self.route) - 1)),
   this |-> self]

optimizeRoute(self) ==
  [ret  |-> IF Len(self.route) <= 2 THEN self.route
            ELSE NearestNeighbor(<<self.route[1]>>, Tail(self.route)),
   this |-> self]

baseTimePerPoint == 15
travelTimePerKm == 5

RECURSIVE TotalDistanceSkipLast(_, _)
\* mutant: the loop stops one leg early
TotalDistanceSkipLast(route, i) ==
  IF i >= Len(route) - 1 THEN 0
  ELSE Distance(route[i + 1], route[i]) + TotalDistanceSkipLast(route, i + 1)

RECURSIVE TotalDistance(_, _)
\* for (let i = 1; i < this.route.length; i++) totalDistance += distance  (0-based i)
TotalDistance(route, i) ==
  IF i >= Len(route) THEN 0
  ELSE Distance(route[i + 1], route[i]) + TotalDistance(route, i + 1)

\* tenths of a minute
calculateEstimatedDuration(self) ==
  [ret  |-> (Len(self.route) * baseTimePerPoint) * 10
            + TotalDistance(self.route, 1) * travelTimePerKm,
   this |-> self]

\* mutant: strict comparison
hasCapacityStrict(self, args) ==
  LET additionalWeight == IF Len(args) = 0 THEN 0 ELSE args[1]
  IN [ret  |-> (self.capacity.current + additionalWeight) < self.capacity.maximum,
      this |-> self]

\* args is <<>> (additionalWeight defaults to 0) or <<additionalWeight>>
hasCapacity(self, args) ==
  LET additionalWeight == IF Len(args) = 0 THEN 0 ELSE args[1]
  IN [ret  |-> (self.capacity.current + additionalWeight) <= self.capacity.maximum,
      this |-> self]

---------------------------------------------------------------------------
(* SpecMethods: the three methods applied to documents drawn from bounded sets *)

NoCall == [name |-> "none", args |-> <<>>, self |-> [route |-> <<>>, capacity |-> [current |-> 0, maximum |-> 1]], ret |-> <<>>]

IdleSystem == /\ schedules = <<>>
              /\ materials = <<>>
              /\ now = 0
              /\ resp = [op |-> "none", status |-> 0, error |-> "none"]

\* the slots of the requests in flight
RequestSlots == {1, 2}

IdleApp == /\ users = {}
           /\ reviews = {}
           /\ reports = <<>>
           /\ reqs = [r \in RequestSlots |-> [pc |-> "idle"]]

InitMethods ==
  /\ \/ \E cs \in SeqsUpTo(Coords, MaxLen) :
          doc = [route |-> MkRoute(cs), capacity |-> [current |-> 0, maximum |-> 1]]
     \/ \E c \in 0..MaxCap, m \in 1..MaxCap :
          doc = [route |-> <<>>, capacity |-> [current |-> c, maximum |-> m]]
  /\ call = NoCall
  /\ IdleSystem
  /\ IdleApp

CallOptimizeRoute ==
  LET r == optimizeRoute(doc)
  IN /\ call' = [name |-> "optimizeRoute", args |-> <<>>, self |-> doc, ret |-> r.ret]
     /\ doc' = r.this
     /\ UNCHANGED <<sysVars, appVars>>

CallCalculateEstimatedDuration ==
  LET r == calculateEstimatedDuration(doc)
  IN /\ call' = [name |-> "calculateEstimatedDuration", args |-> <<>>, self |-> doc, ret |-> r.ret]
     /\ doc' = r.this
     /\ UNCHANGED <<sysVars, appVars>>

CallHasCapacity(args) ==
  LET r == hasCapacity(doc, args)
  IN /\ call' = [name |-> "hasCapacity", args |-> args, self |-> doc, ret |-> r.ret]
     /\ doc' = r.this
     /\ UNCHANGED <<sysVars, appVars>>

NextMethods ==
  \/ CallOptimizeRoute
  \/ CallCalculateEstimatedDuration
  \/ \E args \in SeqsUpTo(0..MaxWeight, 1) : CallHasCapacity(args)

SpecMethods == InitMethods /\ [][NextMethods]_vars

---------------------------------------------------------------------------
(* Documents.  An optional field is a sequence: <<>> when absent, <<v>> when set. *)

MaxDate == 2         \* latest scheduledDate of a request body, in days
MaxNow == 3          \* the clock stops here
MaxBodyCap == 2      \* largest capacity.current / capacity.maximum of a request body
MaxInterval == 2     \* longest recurring.interval of a request body of Spec
MaxEnd == 3          \* latest recurring.endDate of a request body of Spec
MaterialWeights == {0, 1, 2}   \* validationCriteria.minWeight / maxWeight of a request body
MaxMaterials == 1    \* materials created in a run of SpecSave

Digits == "0" :> 0 @@ "1" :> 1 @@ "2" :> 2 @@ "3" :> 3 @@ "4" :> 4
          @@ "5" :> 5 @@ "6" :> 6 @@ "7" :> 7 @@ "8" :> 8 @@ "9" :> 9
IsDigit(c) == c \in DOMAIN Digits
DigitVal(c) == Digits[c]

\* /^([0-1]?[0-9]|2[0-3]):[0-5][0-9]$/ on a string given as its characters
MatchesTime(s) ==
  LET minutesOk(a, b) == IsDigit(a) /\ DigitVal(a) <= 5 /\ IsDigit(b)
  IN \/ /\ Len(s) = 4
        /\ IsDigit(s[1]) /\ s[2] = ":" /\ minutesOk(s[3], s[4])
     \/ /\ Len(s) = 5
        /\ IsDigit(s[1]) /\ IsDigit(s[2])
        /\ \/ DigitVal(s[1]) <= 1
           \/ s[1] = "2" /\ DigitVal(s[2]) <= 3
        /\ s[3] = ":" /\ minutesOk(s[4], s[5])

\* s.split(':') of a string with one colon: <<before, after>>
SplitColon(s) ==
  LET k == CHOOSE i \in DOMAIN s : s[i] = ":" /\ \A j \in 1..(i - 1) : s[j] # ":"
  IN <<SubSeq(s, 1, k - 1), SubSeq(s, k + 1, Len(s))>>

RECURSIVE ParseInt(_)
\* parseInt of a string of digits
ParseInt(s) ==
  IF Len(s) = 0 THEN 0
  ELSE 10 * ParseInt(SubSeq(s, 1, Len(s) - 1)) + DigitVal(s[Len(s)])

\* new CollectionSchedule({...req.body, createdBy}) with the schema's defaults;
\* `version` is the document's __v
NewSchedule(body, id) ==
  [id            |-> id,
   timeSlot      |-> body.timeSlot,
   scheduledDate |-> body.scheduledDate,
   capacity      |-> [current |-> IF body.capacity.current = <<>> THEN 0
                                  ELSE body.capacity.current[1],
                      maximum |-> body.capacity.maximum],
   route         |-> MkRoute(body.route),
   version       |-> 0,
   recurring     |-> IF body.recurring = <<>>
                     THEN [enabled |-> FALSE, interval |-> <<>>, endDate |-> <<>>,
                           parentSchedule |-> <<>>]
                     ELSE [enabled |-> body.recurring[1].enabled,
                           interval |-> <<body.recurring[1].interval>>,
                           endDate |-> <<body.recurring[1].endDate>>,
                           parentSchedule |-> <<>>]]

\* the schema's validators (match, min, max), run by save() and insertMany()
SchemaValid(d) ==
  /\ MatchesTime(d.timeSlot.start)
  /\ MatchesTime(d.timeSlot.end)
  /\ d.capacity.current >= 0
  /\ d.capacity.maximum >= 1
  /\ \A i \in DOMAIN d.route :
       /\ d.route[i].lat >= -90 /\ d.route[i].lat <= 90
       /\ d.route[i].lng >= -180 /\ d.route[i].lng <= 180
       /\ d.route[i].status \in PointStatuses

Minutes(t) == ParseInt(SplitColon(t)[1]) * 60 + ParseInt(SplitColon(t)[2])

\* mutant: rejects only a start after the end
PreSaveStrictlyAfter(d, today) ==
  (IF Minutes(d.timeSlot.start) > Minutes(d.timeSlot.end)
   THEN <<"La hora de inicio debe ser anterior a la hora de fin">> ELSE <<>>)
  \o (IF d.scheduledDate < today
      THEN <<"La fecha programada no puede ser en el pasado">> ELSE <<>>)
  \o <<"ok">>

\* collectionScheduleSchema.pre('save'): the arguments of its calls of next(), in
\* order ("ok" for next() without an error).  The hook does not return after
\* next(error), so it may call next up to three times.
PreSave(d, today) ==
  (IF Minutes(d.timeSlot.start) >= Minutes(d.timeSlot.end)
   THEN <<"La hora de inicio debe ser anterior a la hora de fin">> ELSE <<>>)
  \o (IF d.scheduledDate < today
      THEN <<"La fecha programada no puede ser en el pasado">> ELSE <<>>)
  \o <<"ok">>

\* materialSchema.pre('save')
MaterialPreSave(m) ==
  (IF m.minWeight >= m.maxWeight
   THEN <<"El peso mínimo debe ser menor al peso máximo">> ELSE <<>>)
  \o <<"ok">>

\* the middleware runner takes the first call of next() and ignores the later ones
HookOutcome(calls) == calls[1]

\* document.save(): validation, then the pre-save hook; "ok" or the error
SaveSchedule(d, today) ==
  IF ~SchemaValid(d) THEN "ValidationError" ELSE HookOutcome(PreSave(d, today))

SaveMaterial(m) ==
  IF m.minWeight < 0 \/ m.maxWeight < 0 THEN "ValidationError"
  ELSE HookOutcome(MaterialPreSave(m))

---------------------------------------------------------------------------
(* routes/municipal.js *)

RECURSIVE RecurringDatesNoGuard(_, _, _)
\* mutant: without the `if (currentDate <= finalDate)` inside the loop
RecurringDatesNoGuard(currentDate, finalDate, interval) ==
  IF ~(currentDate <= finalDate) THEN <<>>
  ELSE <<currentDate + interval>>
       \o RecurringDatesNoGuard(currentDate + interval, finalDate, interval)

RECURSIVE RecurringDates(_, _, _)
\* the while loop of createRecurringSchedules: the dates of the schedules pushed
RecurringDates(currentDate, finalDate, interval) ==
  IF ~(currentDate <= finalDate) THEN <<>>
  ELSE LET next == currentDate + interval
       IN (IF next <= finalDate THEN <<next>> ELSE <<>>)
          \o RecurringDates(next, finalDate, interval)

\* createRecurringSchedules(baseSchedule, recurringConfig): the documents handed
\* to insertMany, with the ids the collection `coll` gives them
createRecurringSchedules(baseSchedule, recurringConfig, coll) ==
  LET dates == RecurringDates(baseSchedule.scheduledDate, recurringConfig.endDate,
                              recurringConfig.interval)
  IN [k \in 1..Len(dates) |->
        [baseSchedule EXCEPT
           !.id = Len(coll) + k,
           !.scheduledDate = dates[k],
           !.recurring = [enabled |-> recurringConfig.enabled,
                          interval |-> <<recurringConfig.interval>>,
                          endDate |-> <<recurringConfig.endDate>>,
                          parentSchedule |-> <<baseSchedule.id>>]]]

\* A request is a sequence of steps, one for each `await` of its handler: a
\* step ends where the handler waits for the database.  reqs[r] is the request
\* in flight in slot r, with the local variables of its handler; resp is the
\* last response sent, its `error` the error the catch block logs (with `at`,
\* the time of the save, for a creation that was refused).
Idle == [pc |-> "idle"]

\* a new request takes the first of the slots S that holds none
FirstIdle(S) == {r \in S : reqs[r].pc = "idle" /\ \A q \in S : q < r => reqs[q].pc # "idle"}

\* router.post('/collection-schedule') up to the end of `await schedule.save()`:
\* 400, 500, 201, or the expansion has been prepared and awaits
PostSchedule(r, body) ==
  /\ reqs[r].pc = "idle"
  /\ IF ~(MatchesTime(body.timeSlot.start) /\ MatchesTime(body.timeSlot.end))
     THEN /\ resp' = [op |-> "POST /collection-schedule", status |-> 400, error |-> "validation"]
          /\ UNCHANGED <<schedules, reqs>>
     ELSE
       LET schedule == NewSchedule(body, Len(schedules) + 1)
           outcome == SaveSchedule(schedule, now)
       IN IF outcome # "ok"
          THEN /\ resp' = [op |-> "POST /collection-schedule", at |-> now, status |-> 500,
                            error |-> outcome, message |-> "Error interno del servidor"]
               /\ UNCHANGED <<schedules, reqs>>
          ELSE /\ schedules' = Append(schedules, schedule)
               /\ IF body.recurring # <<>> /\ body.recurring[1].enabled
                  THEN /\ reqs' = [reqs EXCEPT ![r] =
                                     [pc |-> "post:createRecurringSchedules",
                                      schedule |-> schedule,
                                      recurring |-> body.recurring[1]]]
                       /\ UNCHANGED resp
                  ELSE /\ resp' = [op |-> "POST /collection-schedule", status |-> 201,
                                   error |-> "none", schedule |-> schedule.id]
                       /\ UNCHANGED reqs
  /\ UNCHANGED <<materials, now>>

\* `await createRecurringSchedules(schedule, req.body.recurring)` resolves: the
\* follow-ups built from the saved document have been inserted; 201
PostScheduleExpanded(r) ==
  /\ reqs[r].pc = "post:createRecurringSchedules"
  /\ schedules' = schedules \o createRecurringSchedules(reqs[r].schedule, reqs[r].recurring,
                                                        schedules)
  /\ resp' = [op |-> "POST /collection-schedule", status |-> 201, error |-> "none",
              schedule |-> reqs[r].schedule.id]
  /\ reqs' = [reqs EXCEPT ![r] = Idle]
  /\ UNCHANGED <<materials, now>>

\* the same await in a run where CollectionSchedule.insertMany(schedules)
\* rejects (the connection or the server fails) after writing the first n
\* documents of the ordered batch: the catch block answers 500
PostScheduleInsertManyRejects(r, n) ==
  /\ reqs[r].pc = "post:createRecurringSchedules"
  /\ LET batch == createRecurringSchedules(reqs[r].schedule, reqs[r].recurring, schedules)
     IN /\ n < Len(batch)
        /\ schedules' = schedules \o SubSeq(batch, 1, n)
  /\ resp' = [op |-> "POST /collection-schedule", status |-> 500,
              error |-> "MongoError", message |-> "Error interno del servidor"]
  /\ reqs' = [reqs EXCEPT ![r] = Idle]
  /\ UNCHANGED <<materials, now>>

\* Math.round(a / b * 100) for b > 0
RoundPercent(a, b) == (200 * a + b) \div (2 * b)

\* `${n}%`
PercentString(n) == <<n, "%">>

\* Math.round of a duration given in tenths of a minute
RoundMinutes(t) == (t + 5) \div 10

\* mutant: the save writes the route as it was loaded
WriteRouteAsLoaded(stored, loaded, after) ==
  [outcome |-> "ok", doc |-> [stored EXCEPT !.route = loaded]]

\* the update of schedule.save() after `schedule.route = ...`: nothing is
\* written when the assignment did not change the route; otherwise the array
\* is written as a whole under the version that was loaded (__v in the filter,
\* $inc of __v), and a document whose version has moved on is not matched
WriteRoute(stored, loaded, after) ==
  IF after.route = loaded THEN [outcome |-> "ok", doc |-> stored]
  ELSE IF stored.version # after.version THEN [outcome |-> "VersionError", doc |-> stored]
  ELSE [outcome |-> "ok", doc |-> [stored EXCEPT !.route = after.route, !.version = @ + 1]]

\* router.patch('/collection-schedule/:id/optimize-route') up to the end of
\* `await CollectionSchedule.findById(req.params.id)`: 404, or the route is
\* optimized in memory, the duration is computed and `await schedule.save()`
\* is reached
OptimizeLoad(r, id) ==
  /\ reqs[r].pc = "idle"
  /\ IF id \notin DOMAIN schedules
     THEN /\ resp' = [op |-> "PATCH optimize-route", status |-> 404,
                      error |-> "Cronograma no encontrado"]
          /\ UNCHANGED reqs
     ELSE LET schedule == schedules[id]
              optimized == [optimizeRoute(schedule).this EXCEPT !.route = optimizeRoute(schedule).ret]
          IN /\ reqs' = [reqs EXCEPT ![r] =
                           [pc |-> "optimize:save", id |-> id,
                            originalRoute |-> schedule.route,
                            schedule |-> calculateEstimatedDuration(optimized).this,
                            estimatedDuration |-> calculateEstimatedDuration(optimized).ret]]
             /\ UNCHANGED resp
  /\ UNCHANGED <<schedules, materials, now>>

\* schedule.save() resolves or rejects (validation, the pre-save hook, then the
\* update), and the response is sent
OptimizeSave(r) ==
  /\ reqs[r].pc = "optimize:save"
  /\ LET id == reqs[r].id
         originalRoute == reqs[r].originalRoute
         after == reqs[r].schedule
         hook == SaveSchedule(after, now)
         written == WriteRoute(schedules[id], originalRoute, after)
         outcome == IF hook # "ok" THEN hook ELSE written.outcome
     IN IF outcome # "ok"
        THEN /\ resp' = [op |-> "PATCH optimize-route", status |-> 500, error |-> outcome,
                         message |-> "Error interno del servidor"]
             /\ UNCHANGED schedules
        ELSE /\ schedules' = [schedules EXCEPT ![id] = written.doc]
             /\ resp' = [op |-> "PATCH optimize-route", status |-> 200, error |-> "none",
                         id |-> id,
                         originalPoints |-> Len(originalRoute),
                         optimizedPoints |-> Len(after.route),
                         estimatedDuration |-> RoundMinutes(reqs[r].estimatedDuration),
                         estimatedSavings |->
                           IF Len(originalRoute) > 0
                           THEN PercentString(RoundPercent(Len(originalRoute) - Len(after.route),
                                                           Len(originalRoute)))
                           ELSE <<0, "%">>]
  /\ reqs' = [reqs EXCEPT ![r] = Idle]
  /\ UNCHANGED <<materials, now>>

(* routes/materials.js *)

\* material.save() of a loaded document changed to `after`: the validators and
\* the pre-save hook run on the document in memory, then the update sets the
\* paths that differ from the document as loaded; validationCriteria is
\* written as a whole
WriteMaterial(stored, loaded, after) ==
  LET criteria == <<after.minWeight, after.maxWeight>> # <<loaded.minWeight, loaded.maxWeight>>
  IN [stored EXCEPT !.minWeight = IF criteria THEN after.minWeight ELSE @,
                    !.maxWeight = IF criteria THEN after.maxWeight ELSE @,
                    !.isActive = IF after.isActive # loaded.isActive THEN after.isActive ELSE @]

\* the request bodies of PUT /materials/:id, by the keys the model tracks: each
\* key is absent or set, and a validationCriteria object carries each weight or
\* leaves it out; a body changes the criteria or isActive
MaterialCriteria ==
  [minWeight : {<<>>} \cup {<<w>> : w \in MaterialWeights},
   maxWeight : {<<>>} \cup {<<w>> : w \in MaterialWeights}]
MaterialBodies ==
  {body \in [validationCriteria : {<<>>} \cup {<<c>> : c \in MaterialCriteria},
             isActive : {<<>>, <<TRUE>>, <<FALSE>>}] :
     body.validationCriteria = <<>> \/ body.isActive = <<>>}

\* the schema's `required: true` of validationCriteria.minWeight and maxWeight
MaterialRequired(criteria) == criteria.minWeight # <<>> /\ criteria.maxWeight # <<>>

\* router.post('/') of routes/materials.js: new Material({...req.body}), await
\* material.save(); the validators of the route ask for both weights, isActive
\* is the body's or the schema's default
PostMaterial(minWeight, maxWeight, isActive) ==
  LET material == [id |-> Len(materials) + 1, minWeight |-> minWeight,
                   maxWeight |-> maxWeight,
                   isActive |-> IF isActive = <<>> THEN TRUE ELSE isActive[1]]
      outcome == SaveMaterial(material)
  IN /\ IF outcome # "ok"
        THEN /\ resp' = [op |-> "POST /materials", status |-> 500, error |-> outcome,
                         message |-> "Error interno del servidor"]
             /\ UNCHANGED materials
        ELSE /\ materials' = Append(materials, material)
             /\ resp' = [op |-> "POST /materials", status |-> 201, error |-> "none"]
     /\ UNCHANGED <<schedules, now, reqs>>

\* router.put('/:id') up to the end of `await Material.findById(req.params.id)`:
\* 404, or every key of the body is assigned to the document loaded (a
\* validationCriteria object replaces the nested object, so a weight it leaves
\* out is unset) and `await material.save()` is reached
PutMaterial(r, id, body) ==
  /\ reqs[r].pc = "idle"
  /\ IF id \notin DOMAIN materials
     THEN /\ resp' = [op |-> "PUT /materials", status |-> 404, error |-> "Material no encontrado"]
          /\ UNCHANGED reqs
     ELSE /\ reqs' = [reqs EXCEPT ![r] =
                        [pc |-> "put:save",
                         loaded |-> materials[id],
                         criteria |-> IF body.validationCriteria = <<>>
                                      THEN [minWeight |-> <<materials[id].minWeight>>,
                                            maxWeight |-> <<materials[id].maxWeight>>]
                                      ELSE body.validationCriteria[1],
                         isActive |-> IF body.isActive = <<>> THEN materials[id].isActive
                                      ELSE body.isActive[1]]]
          /\ UNCHANGED resp
  /\ UNCHANGED <<schedules, materials, now>>

\* material.save() resolves or rejects, and the response is sent: a required
\* weight that is unset fails the validation, which runs before the hook
PutMaterialSave(r) ==
  /\ reqs[r].pc = "put:save"
  /\ LET criteria == reqs[r].criteria
         material == [reqs[r].loaded EXCEPT !.minWeight = criteria.minWeight[1],
                                            !.maxWeight = criteria.maxWeight[1],
                                            !.isActive = reqs[r].isActive]
         outcome == IF ~MaterialRequired(criteria) THEN "ValidationError"
                    ELSE SaveMaterial(material)
     IN IF outcome # "ok"
        THEN /\ resp' = [op |-> "PUT /materials", status |-> 500, error |-> outcome,
                         message |-> "Error interno del servidor"]
             /\ UNCHANGED materials
        ELSE /\ materials' = [materials EXCEPT ![material.id] =
                                WriteMaterial(@, reqs[r].loaded, material)]
             /\ resp' = [op |-> "PUT /materials", status |-> 200, error |-> "none",
                         material |-> material]
  /\ reqs' = [reqs EXCEPT ![r] = Idle]
  /\ UNCHANGED <<schedules, now>>

\* router.delete('/:id') up to the end of `await Material.findById(req.params.id)`:
\* 404, or isActive is set to false and `await material.save()` is reached
DeleteMaterial(r, id) ==
  /\ reqs[r].pc = "idle"
  /\ IF id \notin DOMAIN materials
     THEN /\ resp' = [op |-> "DELETE /materials", status |-> 404,
                      error |-> "Material no encontrado"]
          /\ UNCHANGED reqs
     ELSE /\ reqs' = [reqs EXCEPT ![r] =
                        [pc |-> "delete:save",
                         loaded |-> materials[id],
                         material |-> [materials[id] EXCEPT !.isActive = FALSE]]]
          /\ UNCHANGED resp
  /\ UNCHANGED <<schedules, materials, now>>

\* material.save() resolves or rejects, and the response is sent
DeleteMaterialSave(r) ==
  /\ reqs[r].pc = "delete:save"
  /\ LET material == reqs[r].material
         outcome == SaveMaterial(material)
     IN IF outcome # "ok"
        THEN /\ resp' = [op |-> "DELETE /materials", status |-> 500, error |-> outcome,
                         message |-> "Error interno del servidor"]
             /\ UNCHANGED materials
        ELSE /\ materials' = [materials EXCEPT ![material.id] =
                                WriteMaterial(@, reqs[r].loaded, material)]
             /\ resp' = [op |-> "DELETE /materials", status |-> 200, error |-> "none"]
  /\ reqs' = [reqs EXCEPT ![r] = Idle]
  /\ UNCHANGED <<schedules, now>>

\* time passes: `new Date()` grows
Tick == /\ now < MaxNow
        /\ now' = now + 1
        /\ UNCHANGED <<schedules, materials, resp>>

---------------------------------------------------------------------------
(* Request bodies and the specifications of the HTTP handlers *)

MaxPosts == 1        \* schedules created by POST in a run of Spec
MaxRecInterval == 7  \* longest recurring.interval of SpecRecurring
MaxRecEnd == 21      \* latest recurring.endDate of SpecRecurring

T0930 == <<"9", ":", "3", "0">>
T1000 == <<"1", "0", ":", "0", "0">>
T2400 == <<"2", "4", ":", "0", "0">>
TimeStrings == {T0930, T1000, T2400}

P(lat, lng) == [lat |-> lat, lng |-> lng]
PS(lat, lng, status) == [lat |-> lat, lng |-> lng, status |-> status]
SampleRoutes == {<<>>,
                 <<PS(0, 0, "done")>>,
                 <<PS(0, 0, "completed"), PS(0, 2, "in_progress"), PS(0, 1, "skipped")>>,
                 <<P(0, 0)>>,
                 <<P(0, 2), P(0, 0)>>,
                 <<P(0, 0), P(0, 2), P(0, 1)>>,
                 <<P(0, 1), P(0, 2), P(0, 0)>>,
                 <<P(0, 0), P(0, 1), P(0, 10), P(0, 2)>>,
                 <<P(1, 1), P(0, 10), P(1, 1), P(0, 0)>>}

Opt(S) == {<<>>} \cup {<<x>> : x \in S}

DefaultBody ==
  [timeSlot      |-> [start |-> T0930, end |-> T1000],
   scheduledDate |-> 1,
   capacity      |-> [current |-> <<>>, maximum |-> 1],
   route         |-> <<>>,
   recurring     |-> <<>>]

BodiesTime ==
  {[DefaultBody EXCEPT !.timeSlot = [start |-> a, end |-> b], !.scheduledDate = d] :
     a \in TimeStrings, b \in TimeStrings, d \in 0..MaxDate}

BodiesCapacity ==
  {[DefaultBody EXCEPT !.capacity = [current |-> c, maximum |-> m], !.recurring = r] :
     c \in Opt(0..MaxBodyCap), m \in 0..MaxBodyCap,
     r \in {<<>>, <<[enabled |-> TRUE, interval |-> 1, endDate |-> MaxEnd]>>}}

BodiesRecurring ==
  {[DefaultBody EXCEPT !.recurring = <<[enabled |-> e, interval |-> i, endDate |-> f]>>] :
     e \in BOOLEAN, i \in 1..MaxInterval, f \in 0..MaxEnd}

BodiesRoute ==
  {[DefaultBody EXCEPT !.route = r] : r \in SampleRoutes}

Bodies == BodiesCapacity \cup BodiesRecurring \cup BodiesRoute

BodiesRecurringLong ==
  {[DefaultBody EXCEPT !.scheduledDate = d,
                       !.recurring = <<[enabled |-> TRUE, interval |-> i, endDate |-> f]>>] :
     d \in 0..MaxDate, i \in 1..MaxRecInterval, f \in 0..MaxRecEnd}

IdleMethods == /\ doc = [route |-> <<>>, capacity |-> [current |-> 0, maximum |-> 1]]
               /\ call = NoCall

Init == IdleMethods /\ IdleSystem /\ IdleApp

\* the schedules created by POST, as opposed to the follow-ups of an expansion
BaseSchedules == {i \in DOMAIN schedules : schedules[i].recurring.parentSchedule = <<>>}

\* what the steps of the schedule and material handlers leave alone
handlerFrame == <<doc, call, users, reviews, reports>>

\* Spec: schedules are created and expanded in slot 1 and optimized in slot 2
Next ==
  \/ \E r \in FirstIdle({1}), body \in Bodies :
       /\ Cardinality(BaseSchedules) < MaxPosts
       /\ PostSchedule(r, body)
       /\ UNCHANGED handlerFrame
  \/ \E r \in FirstIdle({2}), id \in 1..(Len(schedules) + 1) :
       OptimizeLoad(r, id) /\ UNCHANGED handlerFrame
  \/ \E r \in RequestSlots :
       \/ PostScheduleExpanded(r) /\ UNCHANGED handlerFrame
       \/ OptimizeSave(r) /\ UNCHANGED handlerFrame
  \/ Tick /\ UNCHANGED <<methodVars, appVars>>

Spec == Init /\ [][Next]_vars

\* SpecSave: a run works on the schedules or on the materials (no handler
\* touches both collections): schedules are created and optimized, or materials
\* are created, updated and deactivated by concurrent requests (an update of
\* any tracked key in slot 1, an update of isActive or a DELETE in slot 2)
NextSave ==
  \/ /\ materials = <<>>
     /\ \/ \E r \in FirstIdle({1}) :
             \/ \E body \in BodiesTime :
                  /\ Cardinality(BaseSchedules) < MaxPosts
                  /\ PostSchedule(r, body)
                  /\ UNCHANGED handlerFrame
             \/ \E id \in 1..(Len(schedules) + 1) : OptimizeLoad(r, id) /\ UNCHANGED handlerFrame
        \/ \E r \in RequestSlots : OptimizeSave(r) /\ UNCHANGED handlerFrame
  \/ /\ schedules = <<>>
     /\ \/ \E r \in FirstIdle({1}), id \in 1..(Len(materials) + 1), body \in MaterialBodies :
             PutMaterial(r, id, body) /\ UNCHANGED handlerFrame
        \/ \E r \in FirstIdle({2}), id \in 1..(Len(materials) + 1) :
             \/ \E body \in {b \in MaterialBodies : b.validationCriteria = <<>>} :
                  PutMaterial(r, id, body) /\ UNCHANGED handlerFrame
             \/ DeleteMaterial(r, id) /\ UNCHANGED handlerFrame
        \/ \E r \in RequestSlots :
             \/ PutMaterialSave(r) /\ UNCHANGED handlerFrame
             \/ DeleteMaterialSave(r) /\ UNCHANGED handlerFrame
        \/ \E a \in MaterialWeights, b \in MaterialWeights, isActive \in {<<>>, <<FALSE>>} :
             /\ Len(materials) < MaxMaterials
             /\ PostMaterial(a, b, isActive)
             /\ UNCHANGED handlerFrame
  \/ Tick /\ UNCHANGED <<methodVars, appVars>>

SpecSave == Init /\ [][NextSave]_vars

\* SpecRecurring: one recurring schedule created and expanded
NextRecurring ==
  \/ \E r \in FirstIdle(RequestSlots), body \in BodiesRecurringLong :
       /\ schedules = <<>>
       /\ PostSchedule(r, body)
       /\ UNCHANGED handlerFrame
  \/ \E r \in RequestSlots : PostScheduleExpanded(r) /\ UNCHANGED handlerFrame

SpecRecurring == Init /\ [][NextRecurring]_vars

---------------------------------------------------------------------------
(* Properties of the methods, checked under SpecMethods *)

Optimized == call.name = "optimizeRoute"
InRoute == call.self.route
OutRoute == call.ret

Count(x, s) == Cardinality({i \in DOMAIN s : s[i] = x})
CoordOf(p) == [lat |-> p.lat, lng |-> p.lng]
CoordsOf(s) == [i \in DOMAIN s |-> CoordOf(s[i])]

\* C1: optimizeRoute returns a permutation of the input route: every point (and
\* every coordinate pair) occurs in the output as often as in the input, and a
\* route of length 0 or 1 is returned as it is.
C1_Permutation ==
  Optimized =>
    /\ Len(OutRoute) = Len(InRoute)
    /\ \A x \in Range(InRoute) \cup Range(OutRoute) : Count(x, OutRoute) = Count(x, InRoute)
    /\ \A c \in Coords : Count(c, CoordsOf(OutRoute)) = Count(c, CoordsOf(InRoute))
    /\ Len(InRoute) <= 1 => OutRoute = InRoute

\* a route of four points, two of them at the same coordinates, that was reordered
C1_Witness ==
  /\ Optimized
  /\ Len(InRoute) = 4
  /\ OutRoute # InRoute
  /\ \E i, j \in DOMAIN InRoute : i # j /\ CoordOf(InRoute[i]) = CoordOf(InRoute[j])

\* C2: for a route of length >= 2, the point at every output position i >= 2
\* (1-based) is at minimum distance from the point before it among the points
\* at positions >= i.
C2_Greedy ==
  (Optimized /\ Len(InRoute) >= 2) =>
    \A i \in 2..Len(OutRoute) : \A j \in i..Len(OutRoute) :
      Distance(OutRoute[i], OutRoute[i - 1]) <= Distance(OutRoute[j], OutRoute[i - 1])

ExampleRoute == MkRoute(<<[lat |-> 0, lng |-> 0], [lat |-> 0, lng |-> 1],
                          [lat |-> 0, lng |-> 10], [lat |-> 0, lng |-> 2]>>)

\* A(0,0), B(0,1), C(0,10), D(0,2) comes out as A, B, D, C
C2_Witness ==
  /\ Optimized
  /\ InRoute = ExampleRoute
  /\ OutRoute = <<ExampleRoute[1], ExampleRoute[2], ExampleRoute[4], ExampleRoute[3]>>

\* position of a point of the output in the input route
InputIndex(p) == CHOOSE k \in DOMAIN InRoute : InRoute[k] = p

\* C3: when several not-yet-visited points are at the same minimum distance from
\* the current last point, the one earliest in the input order is selected.
C3_TieBreak ==
  Optimized =>
    \A i \in 2..Len(OutRoute) : \A j \in (i + 1)..Len(OutRoute) :
      Distance(OutRoute[j], OutRoute[i - 1]) = Distance(OutRoute[i], OutRoute[i - 1])
        => InputIndex(OutRoute[i]) < InputIndex(OutRoute[j])

\* a step of the loop that met a tie between two points at different places
C3_Witness ==
  /\ Optimized
  /\ Len(InRoute) >= 3
  /\ \E i \in 2..Len(OutRoute) : \E j \in (i + 1)..Len(OutRoute) :
       /\ Distance(OutRoute[j], OutRoute[i - 1]) = Distance(OutRoute[i], OutRoute[i - 1])
       /\ CoordOf(OutRoute[j]) # CoordOf(OutRoute[i])
       /\ InputIndex(OutRoute[i]) < InputIndex(OutRoute[j])

\* C4: the first point of the output is the first point of the input.
C4_FirstPoint ==
  (Optimized /\ Len(InRoute) >= 1) =>
    /\ Len(OutRoute) >= 1
    /\ OutRoute[1] = InRoute[1]

\* a reordered route whose first point is not the nearest to any other
C4_Witness ==
  /\ Optimized
  /\ Len(InRoute) >= 3
  /\ OutRoute # InRoute
  /\ OutRoute[1] = InRoute[1]

\* sum of the distances between consecutive points, last leg first
RECURSIVE PathLength(_)
PathLength(route) ==
  IF Len(route) <= 1 THEN 0
  ELSE PathLength(SubSeq(route, 1, Len(route) - 1))
       + Distance(route[Len(route) - 1], route[Len(route)])

\* C7: calculateEstimatedDuration returns 15 minutes per route point plus
\* 5 minutes per kilometre of the path through the route in its current order
\* (in tenths of a minute: 150 per point, 5 per tenth of a kilometre): 15 * n
\* when all points are at the same place, 0 for the empty route.
C7_Duration ==
  call.name = "calculateEstimatedDuration" =>
    /\ call.ret = 150 * Len(InRoute) + 5 * PathLength(InRoute)
    /\ (\A i, j \in DOMAIN InRoute : CoordOf(InRoute[i]) = CoordOf(InRoute[j]))
         => call.ret = 10 * (15 * Len(InRoute))
    /\ Len(InRoute) = 0 => call.ret = 0

\* three points at one place: 45 minutes
C7_Witness ==
  /\ call.name = "calculateEstimatedDuration"
  /\ Len(InRoute) = 3
  /\ \A i, j \in DOMAIN InRoute : CoordOf(InRoute[i]) = CoordOf(InRoute[j])
  /\ call.ret = 450

\* C8: hasCapacity(additionalWeight) is true exactly when capacity.current +
\* additionalWeight <= capacity.maximum (additionalWeight 0 when not given), and
\* the call leaves the schedule as it was.
C8_HasCapacity ==
  call.name = "hasCapacity" =>
    LET w == IF call.args = <<>> THEN 0 ELSE call.args[1]
    IN /\ call.ret = (call.self.capacity.current + w <= call.self.capacity.maximum)
       /\ doc = call.self

\* current 8, maximum 10: true for 1
C8_Witness ==
  /\ call.name = "hasCapacity"
  /\ call.self.capacity = [current |-> 8, maximum |-> 10]
  /\ call.args = <<1>>
  /\ call.ret = TRUE

\* current 8, maximum 10: false for 3; and true for exactly 2 and for no argument
C8_Examples ==
  (call.name = "hasCapacity" /\ call.self.capacity = [current |-> 8, maximum |-> 10]) =>
    /\ call.args = <<3>> => call.ret = FALSE
    /\ call.args = <<2>> => call.ret = TRUE
    /\ call.args = <<>> => call.ret = TRUE

---------------------------------------------------------------------------
(* Properties of the handlers *)

FollowUps(b) == {i \in DOMAIN schedules : schedules[i].recurring.parentSchedule = <<schedules[b].id>>}

\* C5 (SpecRecurring): once its creation has been answered 201, a schedule
\* created with recurring {interval >= 1, endDate} has exactly one follow-up for each k >= 1 with scheduledDate + k * interval
\* <= endDate and no other: floor((endDate - scheduledDate) / interval) of them,
\* none when endDate < scheduledDate + interval; each refers to the base
\* schedule and is dated strictly later than it.
C5_RecurringExpansion ==
  \A b \in BaseSchedules :
    (/\ schedules[b].recurring.enabled
     /\ resp.op = "POST /collection-schedule"
     /\ resp.status = 201
     /\ resp.schedule = b) =>
      LET base == schedules[b]
          interval == base.recurring.interval[1]
          endDate == base.recurring.endDate[1]
          steps == {k \in 1..(MaxRecEnd + 1) : base.scheduledDate + k * interval <= endDate}
      IN /\ \A k \in steps :
              Cardinality({f \in FollowUps(b) :
                 schedules[f].scheduledDate = base.scheduledDate + k * interval}) = 1
         /\ \A f \in FollowUps(b) :
              /\ \E k \in steps : schedules[f].scheduledDate = base.scheduledDate + k * interval
              /\ schedules[f].scheduledDate > base.scheduledDate
              /\ schedules[f].id # base.id
         /\ Cardinality(FollowUps(b)) =
              IF endDate < base.scheduledDate + interval THEN 0
              ELSE (endDate - base.scheduledDate) \div interval
         /\ \A i \in DOMAIN schedules : i = b \/ i \in FollowUps(b)

\* day 0, every 7 days until day 20: follow-ups on days 7 and 14
C5_Witness ==
  \E b \in BaseSchedules :
    /\ schedules[b].scheduledDate = 0
    /\ schedules[b].recurring = [enabled |-> TRUE, interval |-> <<7>>, endDate |-> <<20>>,
                                 parentSchedule |-> <<>>]
    /\ {schedules[f].scheduledDate : f \in FollowUps(b)} = {7, 14}
    /\ Len(schedules) = 3

TimeSlotError == "La hora de inicio debe ser anterior a la hora de fin"
PastDateError == "La fecha programada no puede ser en el pasado"
MinWeightError == "El peso mínimo debe ser menor al peso máximo"

\* the bodies that pass the request validation, and those among them whose
\* timeSlot.start is not before timeSlot.end
WellFormedBodies ==
  {body \in BodiesTime : MatchesTime(body.timeSlot.start) /\ MatchesTime(body.timeSlot.end)}
BadSlotBodies ==
  {body \in WellFormedBodies :
     ~(Minutes(body.timeSlot.start) < Minutes(body.timeSlot.end))}

Rejected(message) == /\ resp'.status = 500
                     /\ resp'.error \in message
                     /\ schedules' = schedules
                     /\ materials' = materials

\* C6 (SpecSave): a save that violates a save-time precondition is rejected with
\* an error and stores nothing: a schedule whose timeSlot.start, in minutes, is
\* not below timeSlot.end or whose scheduledDate is before the current time (on
\* creation and on the save of optimize-route), a material whose minWeight is
\* not below maxWeight (on creation and on update); also when both schedule
\* preconditions are violated.
C6_SaveRejected ==
  [][/\ resp'.op = "POST /collection-schedule" =>
          \/ Rejected({TimeSlotError, PastDateError})
          \/ \A r \in RequestSlots, body \in WellFormedBodies :
               ~((body \in BadSlotBodies \/ body.scheduledDate < now) /\ PostSchedule(r, body))
     /\ resp'.op = "PATCH optimize-route" =>
          \/ Rejected({PastDateError})
          \/ \A r \in RequestSlots :
               ~(/\ reqs[r].pc = "optimize:save"
                 /\ reqs[r].schedule.scheduledDate < now
                 /\ OptimizeSave(r))
     /\ resp'.op = "POST /materials" =>
          \/ Rejected({MinWeightError})
          \/ \A a \in MaterialWeights, b \in MaterialWeights, isActive \in {<<>>, <<FALSE>>} :
               ~(~(a < b) /\ PostMaterial(a, b, isActive))
     /\ resp'.op = "PUT /materials" =>
          \/ Rejected({MinWeightError})
          \/ \A r \in RequestSlots :
               ~(/\ reqs[r].pc = "put:save"
                 /\ MaterialRequired(reqs[r].criteria)
                 /\ ~(reqs[r].criteria.minWeight[1] < reqs[r].criteria.maxWeight[1])
                 /\ PutMaterialSave(r))
    ]_vars

\* a creation refused for its time slot at a time when every date a body can
\* carry is in the past, so with both preconditions violated
C6_Witness ==
  /\ resp.op = "POST /collection-schedule"
  /\ resp.status = 500
  /\ resp.error = TimeSlotError
  /\ resp.at > MaxDate
  /\ schedules = <<>>

\* C9 (Spec): every successful response of optimize-route reports as many
\* optimized points as original points and estimatedSavings "0%".
C9_SavingsAlwaysZero ==
  (resp.op = "PATCH optimize-route" /\ resp.status = 200) =>
    /\ resp.originalPoints = resp.optimizedPoints
    /\ resp.estimatedSavings = <<0, "%">>

\* a route of four points that the request reordered
C9_Witness ==
  /\ resp.op = "PATCH optimize-route"
  /\ resp.status = 200
  /\ resp.originalPoints = 4
  /\ resp.estimatedSavings = <<0, "%">>
  /\ resp.id \in DOMAIN schedules
  /\ \E i \in 1..3 : schedules[resp.id].route[i].id > schedules[resp.id].route[i + 1].id

\* C10 (Spec): every stored schedule has capacity.current <= capacity.maximum.
C10_CapacityWithinMaximum ==
  \A i \in DOMAIN schedules : schedules[i].capacity.current <= schedules[i].capacity.maximum

---------------------------------------------------------------------------
(* Status of a route point, checked under Spec *)

\* the order of the statuses: pending -> in_progress -> {completed, skipped}
Forward(a, b) ==
  \/ a = b
  \/ a = "pending" /\ b \in {"in_progress", "completed", "skipped"}
  \/ a = "in_progress" /\ b \in {"completed", "skipped"}

\* C11: the status of a stored route point only moves forward (pending, then
\* in_progress, then completed or skipped): no step of a handler takes a point
\* from in_progress back to pending, or out of completed or skipped.
C11_StatusForward ==
  [][\A i \in DOMAIN schedules :
       \A p \in Range(schedules[i].route) :
         \A q \in Range(schedules'[i].route) :
           q.id = p.id => Forward(p.status, q.status)]_vars

\* a route holding points in progress, completed and skipped has been reordered
\* and saved by optimize-route
C11_Witness ==
  /\ resp.op = "PATCH optimize-route"
  /\ resp.status = 200
  /\ LET route == schedules[resp.id].route
     IN /\ \E i \in DOMAIN route : route[i].id # i
        /\ {"in_progress", "completed", "skipped"} \subseteq {route[i].status : i \in DOMAIN route}

---------------------------------------------------------------------------
(* models/User.js *)

MaxUsers == 2        \* users ever stored in a run
MaxInFlight == 2     \* concurrent registrations of SpecRegister

Emails == {"a@x.com", "A@x.com", "b@x.com", "invalid-email"}
Passwords == {"password123", "password456", "123", ""}
PasswordLength ==
  ("password123" :> 11) @@ ("password456" :> 11) @@ ("123" :> 3) @@ ("" :> 0)

\* express-validator isEmail()
IsEmail(e) == e # "invalid-email"
\* express-validator normalizeEmail(): lower case
NormalizeEmail(e) == IF e = "A@x.com" THEN "a@x.com" ELSE e
\* the schema's `lowercase: true`
Lowercase(e) == IF e = "A@x.com" THEN "a@x.com" ELSE e

\* bcrypt.hash and bcrypt.compare.  A stored password is a hash, or the text
\* that an update wrote without hashing it: compare answers false for a
\* stored value that is no hash
Hash(password) == <<"bcrypt", password>>
Plain(password) == <<"plain", password>>
Compare(candidatePassword, hash) == hash = Hash(candidatePassword)

\* the schema's enum of userType, and a value outside it
UserTypes == {"individual", "producer", "comuna"}

\* new User({name, email, password, ..., userType: userType || 'individual'})
\* with the schema's defaults.  A
\* deleted document stays in `users` with `deleted` set, so that an _id is
\* never given twice; every query reads Live(users).
NewUser(body, id) ==
  [id |-> id, email |-> Lowercase(body.email), password |-> body.password,
   userType |-> IF body.userType = <<>> THEN "individual" ELSE body.userType[1],
   isActive |-> TRUE,
   reputation |-> [average |-> 0, count |-> 0], deleted |-> FALSE]

Live(coll) == {u \in coll : ~u.deleted}

\* what stays of a deleted document: its _id and the email that the tokens
\* signed for it carry
Deleted(u) ==
  [id |-> u.id, email |-> u.email, password |-> Hash(""), userType |-> "individual",
   isActive |-> FALSE, reputation |-> [average |-> 0, count |-> 0], deleted |-> TRUE]

\* the schema's validators: email match, password minlength, userType enum
UserSchemaValid(u) ==
  IsEmail(u.email) /\ PasswordLength[u.password] >= 6 /\ u.userType \in UserTypes

\* userSchema.pre('save'): a modified password is replaced by its hash
UserPreSave(u) == [u EXCEPT !.password = Hash(@)]

\* mutant: the collection has no unique index on email
InsertUserNoIndex(coll, u) == "ok"

\* insert under the unique index on email
InsertUser(coll, u) ==
  IF \E v \in Live(coll) : v.email = u.email THEN "E11000" ELSE "ok"

\* userSchema.methods.toJSON: the fields of the document without its password
\* (`deleted` is not a field of the document)
toJSON(u) == [f \in DOMAIN u \ {"password", "deleted"} |-> u[f]]

\* jwt.sign({userId, email}, secret, {expiresIn: '7d'})
Sign(u) == [userId |-> u.id, email |-> u.email, expired |-> FALSE, signed |-> TRUE]

---------------------------------------------------------------------------
(* routes/auth.js: each request is a sequence of steps, one per await *)

\* the frame of the steps of routes/auth.js and middleware/auth.js
authFrame == <<doc, call, schedules, materials, now, reviews, reports>>

RegisterBodies ==
  [email : Emails, password : {"password123", "123"},
   userType : {<<>>, <<"producer">>, <<"comuna">>, <<"admin">>}]
\* SpecAuth registers and logs in under one address, in its two spellings
AuthEmails == Emails \ {"b@x.com"}
LoginBodies == [email : AuthEmails, password : {"password123", "password456", ""}]

\* router.post('/register'): validation, then `await User.findOne({ email })`
StartRegister(r, body) ==
  /\ reqs[r].pc = "idle"
  /\ IF ~(IsEmail(body.email) /\ PasswordLength[body.password] >= 6)
     THEN /\ resp' = [op |-> "POST /register", req |-> body, status |-> 400,
                      message |-> "errors", token |-> <<>>]
          /\ UNCHANGED reqs
     ELSE /\ reqs' = [reqs EXCEPT ![r] =
                        [pc |-> "register:findOne",
                         body |-> [body EXCEPT !.email = NormalizeEmail(@)]]]
          /\ UNCHANGED resp
  /\ UNCHANGED users

\* existingUser = await User.findOne({ email }); if (existingUser) 409
RegisterFindOne(r) ==
  /\ reqs[r].pc = "register:findOne"
  /\ IF \E u \in Live(users) : u.email = Lowercase(reqs[r].body.email)
     THEN /\ resp' = [op |-> "POST /register", req |-> reqs[r].body, status |-> 409,
                      message |-> "El usuario ya existe", token |-> <<>>]
          /\ reqs' = [reqs EXCEPT ![r] = Idle]
     ELSE /\ reqs' = [reqs EXCEPT ![r].pc = "register:save"]
          /\ UNCHANGED resp
  /\ UNCHANGED users

\* await user.save(), jwt.sign, 201; an error of save() is answered 500
RegisterSave(r) ==
  /\ reqs[r].pc = "register:save"
  /\ LET user == NewUser(reqs[r].body, Cardinality(users) + 1)
         outcome == IF ~UserSchemaValid(user) THEN "ValidationError"
                    ELSE InsertUser(users, UserPreSave(user))
     IN IF outcome # "ok"
        THEN /\ resp' = [op |-> "POST /register", req |-> reqs[r].body, status |-> 500,
                         message |-> "Error interno del servidor", token |-> <<>>]
             /\ UNCHANGED users
        ELSE /\ users' = users \cup {UserPreSave(user)}
             /\ resp' = [op |-> "POST /register", req |-> reqs[r].body, status |-> 201,
                         message |-> "Usuario registrado exitosamente",
                         user |-> toJSON(UserPreSave(user)),
                         token |-> <<Sign(user)>>]
  /\ reqs' = [reqs EXCEPT ![r] = Idle]

---------------------------------------------------------------------------
(* routes/users.js: PUT /profile, mounted behind authMiddleware, which accepted
   the request before the handler starts: req.user.userId is the _id of a user
   registered earlier *)

\* res.status(...).json({ message }) of the user routes
UserResponse(op, status, message) == [op |-> op, status |-> status, message |-> message]

\* the request bodies of PUT /api/users/profile, by the keys the model tracks:
\* at most one of them is set; a name of one letter fails the route's validator
ProfileBodies ==
  {body \in [name : {<<>>, <<"A">>},
             email : {<<>>, <<"a@x.com">>, <<"b@x.com">>, <<"invalid-email">>},
             password : {<<>>, <<"password456">>, <<"123">>},
             userType : {<<>>, <<"individual">>, <<"comuna">>, <<"admin">>},
             isActive : {<<>>, <<TRUE>>, <<FALSE>>},
             \* reputation.average is kept in tenths
             reputation : {<<>>, <<[average |-> 50, count |-> 1]>>}] :
     Cardinality({f \in DOMAIN body : body[f] # <<>>}) <= 1}

\* body('name').optional().trim().isLength({ min: 2, max: 100 })
ProfileNameValid(body) == body.name = <<>> \/ body.name[1] # "A"

\* the update validators of findByIdAndUpdate(..., { runValidators: true }) on
\* the paths the update sets
UpdateValid(body) ==
  /\ body.email # <<>> => IsEmail(body.email[1])
  /\ body.password # <<>> => PasswordLength[body.password[1]] >= 6
  /\ body.userType # <<>> => body.userType[1] \in UserTypes

\* the document after `$set` of the body: every key of the body that is a
\* path of the schema is written; no pre('save') runs, so a password is
\* stored as it came
UpdateUser(u, body) ==
  [u EXCEPT !.email = IF body.email = <<>> THEN @ ELSE Lowercase(body.email[1]),
            !.password = IF body.password = <<>> THEN @ ELSE Plain(body.password[1]),
            !.userType = IF body.userType = <<>> THEN @ ELSE body.userType[1],
            !.isActive = IF body.isActive = <<>> THEN @ ELSE body.isActive[1],
            !.reputation = IF body.reputation = <<>> THEN @ ELSE body.reputation[1]]

\* router.put('/profile'): validation, then
\* `await User.findByIdAndUpdate(req.user.userId, { ...req.body }, { new: true,
\* runValidators: true })`; 400, 500 (a validator or the unique index on
\* email refuses the update), 404 or 200
PutProfile(userId, body) ==
  /\ LET found == {u \in Live(users) : u.id = userId}
         updated == {UpdateUser(u, body) : u \in found}
     IN IF ~ProfileNameValid(body)
        THEN /\ resp' = UserResponse("PUT /profile", 400, "errors")
             /\ UNCHANGED users
        ELSE IF ~UpdateValid(body)
        THEN /\ resp' = UserResponse("PUT /profile", 500, "Error interno del servidor")
             /\ UNCHANGED users
        ELSE IF found = {}
        THEN /\ resp' = UserResponse("PUT /profile", 404, "Usuario no encontrado")
             /\ UNCHANGED users
        ELSE IF \E u \in updated, v \in Live(users) \ found : v.email = u.email
        THEN /\ resp' = UserResponse("PUT /profile", 500, "Error interno del servidor")
             /\ UNCHANGED users
        ELSE /\ users' = (users \ found) \cup updated
             /\ resp' = [op |-> "PUT /profile", status |-> 200,
                         message |-> "Perfil actualizado exitosamente",
                         user |-> toJSON(CHOOSE u \in updated : TRUE)]
  /\ UNCHANGED reqs

---------------------------------------------------------------------------
\* SpecRegister: concurrent registrations, while the first user registered
\* changes the userType of their profile or moves it to the address b@x.com
InitRegister ==
  /\ IdleMethods
  /\ IdleSystem
  /\ users = {}
  /\ reviews = {}
  /\ reports = <<>>
  /\ reqs = [r \in 1..MaxInFlight |-> Idle]

NextRegister ==
  \E r \in 1..MaxInFlight :
    \/ \E body \in {b \in RegisterBodies : b.userType \in {<<>>, <<"producer">>, <<"admin">>}} :
         /\ Cardinality(users) < MaxUsers
         /\ StartRegister(r, body)
         /\ UNCHANGED authFrame
    \/ RegisterFindOne(r) /\ UNCHANGED authFrame
    \/ RegisterSave(r) /\ UNCHANGED authFrame
    \/ \E body \in {b \in ProfileBodies : b.password = <<>> /\ b.isActive = <<>>
                                            /\ b.reputation = <<>>
                                            /\ b.email # <<"a@x.com">>} :
         r = 1 /\ PutProfile(1, body) /\ UNCHANGED authFrame

SpecRegister == InitRegister /\ [][NextRegister]_vars

\* no two stored users have the same email
OneUserPerEmail == \A u \in Live(users), v \in Live(users) : u.email = v.email => u = v

\* the email of the registration in slot r belongs to a stored user
EmailTaken(r) == \E u \in Live(users) : u.email = Lowercase(reqs[r].body.email)

\* C12 as stated: a registration that ends while its email belongs to a stored
\* user is answered 409 'El usuario ya existe' and stores nothing, in every
\* interleaving of registrations with the same email; no two stored users
\* have the same email.
C12_AlwaysConflict ==
  /\ []OneUserPerEmail
  /\ [][\A r \in DOMAIN reqs :
          (/\ reqs[r].pc \in {"register:findOne", "register:save"}
           /\ EmailTaken(r)
           /\ reqs'[r].pc = "idle")
          => /\ resp'.status = 409
             /\ resp'.message = "El usuario ya existe"
             /\ users' = users]_vars

\* C12 (SpecRegister): a registration whose email belongs to a stored user when
\* findOne looks it up is answered 409 'El usuario ya existe' and stores
\* nothing; a registration that passed findOne and whose email belongs to a
\* stored user when it saves (a registration with the same email saved first)
\* is answered 500 'Error interno del servidor' and stores nothing; whatever
\* the interleaving, no two stored users have the same email.
C12_OneUserPerEmail ==
  /\ []OneUserPerEmail
  /\ [][\A r \in DOMAIN reqs :
          /\ (reqs[r].pc = "register:findOne" /\ EmailTaken(r) /\ reqs'[r] # reqs[r])
             => /\ reqs'[r].pc = "idle"
                /\ resp'.status = 409
                /\ resp'.message = "El usuario ya existe"
                /\ users' = users
          /\ (reqs[r].pc = "register:save" /\ EmailTaken(r) /\ reqs'[r] # reqs[r])
             => /\ reqs'[r].pc = "idle"
                /\ resp'.status = 500
                /\ resp'.message = "Error interno del servidor"
                /\ users' = users]_vars

\* of two registrations of a@x.com that both passed findOne, one has stored
\* its user and the other has been answered 500 (in SpecRegister no update of
\* a profile sets this address)
C12_Witness ==
  /\ resp.op = "POST /register"
  /\ resp.status = 500
  /\ resp.req.email = "a@x.com"
  /\ resp.req.userType \in {<<>>, <<"producer">>}
  /\ Cardinality({u \in Live(users) : u.email = "a@x.com"}) = 1

---------------------------------------------------------------------------
(* routes/auth.js: POST /login *)

\* mutant: the query does not ask for isActive
LoginQueryAnyUser(coll, email) == {u \in Live(coll) : u.email = Lowercase(email)}

\* User.findOne({ email, isActive: true }): the matching documents
LoginQuery(coll, email) ==
  {u \in Live(coll) : u.email = Lowercase(email) /\ u.isActive}

\* router.post('/login'): validation, then `await User.findOne(...)`
StartLogin(r, body) ==
  /\ reqs[r].pc = "idle"
  /\ IF ~(IsEmail(body.email) /\ body.password # "")
     THEN /\ resp' = [op |-> "POST /login", req |-> body, status |-> 400,
                      message |-> "errors", token |-> <<>>]
          /\ UNCHANGED reqs
     ELSE /\ reqs' = [reqs EXCEPT ![r] =
                        [pc |-> "login:findOne",
                         body |-> [body EXCEPT !.email = NormalizeEmail(@)]]]
          /\ UNCHANGED resp
  /\ UNCHANGED users

\* user = await User.findOne({ email, isActive: true }); if (!user) 401
LoginFindOne(r) ==
  /\ reqs[r].pc = "login:findOne"
  /\ LET found == LoginQuery(users, reqs[r].body.email)
     IN IF found = {}
        THEN /\ resp' = [op |-> "POST /login", req |-> reqs[r].body, status |-> 401,
                         message |-> "Credenciales inválidas", token |-> <<>>]
             /\ reqs' = [reqs EXCEPT ![r] = Idle]
        ELSE /\ reqs' = [reqs EXCEPT ![r] =
                           [pc |-> "login:compare", body |-> reqs[r].body,
                            user |-> CHOOSE u \in found : TRUE]]
             /\ UNCHANGED resp
  /\ UNCHANGED users

\* isPasswordValid = await user.comparePassword(password); 401 or the token
LoginCompare(r) ==
  /\ reqs[r].pc = "login:compare"
  /\ IF ~Compare(reqs[r].body.password, reqs[r].user.password)
     THEN resp' = [op |-> "POST /login", req |-> reqs[r].body, status |-> 401,
                   message |-> "Credenciales inválidas", token |-> <<>>]
     ELSE resp' = [op |-> "POST /login", req |-> reqs[r].body, status |-> 200,
                   message |-> "Inicio de sesión exitoso", token |-> <<Sign(reqs[r].user)>>]
  /\ reqs' = [reqs EXCEPT ![r] = Idle]
  /\ UNCHANGED users

---------------------------------------------------------------------------
(* middleware/auth.js and GET /profile *)

\* the tokens a client can hold: the ones signed for a user ever stored, fresh
\* or past their seven days, and a string that is no token
NoToken == [userId |-> 0, email |-> "", expired |-> FALSE, signed |-> FALSE]
Tokens(coll) ==
  {NoToken} \cup {[Sign(u) EXCEPT !.expired = e] : u \in coll, e \in BOOLEAN}

\* the Authorization header: absent, 'Bearer ' alone, or 'Bearer ' and a token
Headers(coll) == {<<>>, <<"Bearer ">>} \cup {<<"Bearer ", t>> : t \in Tokens(coll)}

\* req.header('Authorization')?.replace('Bearer ', ''): <<>> stands for a falsy
\* result (undefined or the empty string)
HeaderToken(header) == IF Len(header) = 2 THEN <<header[2]>> ELSE <<>>

\* jwt.verify(token, secret): the error thrown, or "ok"
Verify(token) ==
  IF ~token.signed THEN "JsonWebTokenError"
  ELSE IF token.expired THEN "TokenExpiredError"
  ELSE "ok"

\* mutant: `if (!user)` without the test of isActive
AuthUserValidAnyUser(found) == found # {}

\* `!(!user || !user.isActive)` for the result of findById
AuthUserValid(found) == found # {} /\ \A u \in found : u.isActive

\* authMiddleware up to `await User.findById(decoded.userId)`
authMiddleware(r, header) ==
  /\ reqs[r].pc = "idle"
  /\ LET token == HeaderToken(header)
     IN IF token = <<>>
        THEN /\ resp' = [op |-> "GET /profile", req |-> header, status |-> 401,
                         message |-> "Token no proporcionado", handler |-> FALSE]
             /\ UNCHANGED reqs
        ELSE IF Verify(token[1]) # "ok"
        THEN /\ resp' = [op |-> "GET /profile", req |-> header, status |-> 401,
                         message |-> IF Verify(token[1]) = "TokenExpiredError"
                                     THEN "Token expirado" ELSE "Token inválido",
                         handler |-> FALSE]
             /\ UNCHANGED reqs
        ELSE /\ reqs' = [reqs EXCEPT ![r] =
                           [pc |-> "auth:findById", header |-> header, decoded |-> token[1],
                            \* history: the user was not stored when the request arrived
                            userMissing |-> ~\E u \in Live(users) : u.id = token[1].userId]]
             /\ UNCHANGED resp
  /\ UNCHANGED users

\* user = await User.findById(decoded.userId); 401, or req.user and next()
authMiddlewareFindById(r) ==
  /\ reqs[r].pc = "auth:findById"
  /\ LET found == {u \in Live(users) : u.id = reqs[r].decoded.userId}
     IN IF ~AuthUserValid(found)
        THEN /\ resp' = [op |-> "GET /profile", req |-> reqs[r].header, status |-> 401,
                         message |-> "Usuario no válido", handler |-> FALSE]
             /\ reqs' = [reqs EXCEPT ![r] = Idle]
        ELSE /\ reqs' = [reqs EXCEPT ![r] =
                           [pc |-> "profile:findById", header |-> reqs[r].header,
                            decoded |-> reqs[r].decoded, userMissing |-> reqs[r].userMissing,
                            user |-> LET u == CHOOSE u \in found : TRUE
                                     IN [userId |-> u.id, email |-> u.email]]]
             /\ UNCHANGED resp
  /\ UNCHANGED users

\* router.get('/profile'): user = await User.findById(req.user.userId); 404 or the user
GetProfile(r) ==
  /\ reqs[r].pc = "profile:findById"
  /\ LET found == {u \in Live(users) : u.id = reqs[r].user.userId}
     IN IF found = {}
        THEN resp' = [op |-> "GET /profile", req |-> reqs[r].header, status |-> 404,
                      message |-> "Usuario no encontrado", handler |-> TRUE]
        ELSE resp' = [op |-> "GET /profile", req |-> reqs[r].header, status |-> 200,
                      message |-> "none", handler |-> TRUE,
                      user |-> toJSON(CHOOSE u \in found : TRUE)]
  /\ reqs' = [reqs EXCEPT ![r] = Idle]
  /\ UNCHANGED users

\* User.findByIdAndDelete(userId)
DeleteUser(u) ==
  /\ u \in Live(users)
  /\ users' = (users \ {u}) \cup {Deleted(u)}
  /\ UNCHANGED <<reqs, resp>>

\* User.findOneAndUpdate({ email }, { isActive: false })
DeactivateUser(u) ==
  /\ u \in Live(users)
  /\ u.isActive
  /\ users' = (users \ {u}) \cup {[u EXCEPT !.isActive = FALSE]}
  /\ UNCHANGED <<reqs, resp>>

---------------------------------------------------------------------------
(* routes/users.js and routes/admin.js: the requests that write a user.  They
   are mounted behind authMiddleware (and adminMiddleware), which accepted the
   request before the handler starts: req.user.userId is the _id of a user
   registered earlier. *)

ChangePasswordBodies ==
  [currentPassword : {"password123", "password456"},
   newPassword : {"password456", "123"},
   confirmPassword : {"password456"}]
DeactivateBodies == [password : {"password123", "password456", ""}]

\* user.save() of a loaded document after the assignments `changes`: a path
\* is modified when its value changed (a password in clear never equals the
\* stored hash); without a modified path nothing is sent; the modified paths
\* are validated, a modified password is hashed by the pre-save hook, and the
\* update sets the modified paths of the stored document; a document that is
\* no longer stored makes save() reject
SaveUser(coll, loaded, changes) ==
  LET stored == {u \in Live(coll) : u.id = loaded.id}
      modified == {f \in DOMAIN changes : f = "password" \/ changes[f] # loaded[f]}
      after == [f \in DOMAIN loaded |-> IF f \in modified THEN changes[f] ELSE loaded[f]]
      hooked == IF "password" \in modified THEN UserPreSave(after) ELSE after
  IN IF modified = {}
     THEN [outcome |-> "ok", users |-> coll]
     ELSE IF "password" \in modified /\ PasswordLength[after.password] < 6
     THEN [outcome |-> "ValidationError", users |-> coll]
     ELSE IF stored = {}
     THEN [outcome |-> "DocumentNotFoundError", users |-> coll]
     ELSE [outcome |-> "ok",
           users |-> (coll \ stored) \cup
                     {[f \in DOMAIN u |-> IF f \in modified THEN hooked[f] ELSE u[f]] :
                        u \in stored}]

\* router.put('/change-password'): validation, then
\* `await User.findById(req.user.userId)`; 400, 404 or the user
ChangePassword(r, userId, body) ==
  /\ reqs[r].pc = "idle"
  /\ LET found == {u \in Live(users) : u.id = userId}
     IN IF ~(/\ body.currentPassword # ""
             /\ PasswordLength[body.newPassword] >= 6
             /\ body.confirmPassword = body.newPassword)
        THEN /\ resp' = UserResponse("PUT /change-password", 400, "errors")
             /\ UNCHANGED reqs
        ELSE IF found = {}
        THEN /\ resp' = UserResponse("PUT /change-password", 404, "Usuario no encontrado")
             /\ UNCHANGED reqs
        ELSE /\ reqs' = [reqs EXCEPT ![r] = [pc |-> "change-password:comparePassword",
                                             body |-> body,
                                             user |-> CHOOSE u \in found : TRUE]]
             /\ UNCHANGED resp
  /\ UNCHANGED users

\* isCurrentPasswordValid = await user.comparePassword(currentPassword); 400
ChangePasswordCompare(r) ==
  /\ reqs[r].pc = "change-password:comparePassword"
  /\ IF ~Compare(reqs[r].body.currentPassword, reqs[r].user.password)
     THEN /\ resp' = UserResponse("PUT /change-password", 400,
                                  "Contraseña actual incorrecta")
          /\ reqs' = [reqs EXCEPT ![r] = Idle]
     ELSE /\ reqs' = [reqs EXCEPT ![r].pc = "change-password:save"]
          /\ UNCHANGED resp
  /\ UNCHANGED users

\* user.password = newPassword; await user.save(); 200, or 500 from the catch
ChangePasswordSave(r) ==
  /\ reqs[r].pc = "change-password:save"
  /\ LET saved == SaveUser(users, reqs[r].user, [password |-> reqs[r].body.newPassword])
     IN /\ users' = saved.users
        /\ resp' = IF saved.outcome = "ok"
                   THEN UserResponse("PUT /change-password", 200,
                                     "Contraseña actualizada exitosamente")
                   ELSE UserResponse("PUT /change-password", 500,
                                     "Error interno del servidor")
  /\ reqs' = [reqs EXCEPT ![r] = Idle]

\* router.put('/deactivate'): validation, then
\* `await User.findById(req.user.userId)`; 400, 404 or the user
PutDeactivate(r, userId, body) ==
  /\ reqs[r].pc = "idle"
  /\ LET found == {u \in Live(users) : u.id = userId}
     IN IF body.password = ""
        THEN /\ resp' = UserResponse("PUT /deactivate", 400, "errors")
             /\ UNCHANGED reqs
        ELSE IF found = {}
        THEN /\ resp' = UserResponse("PUT /deactivate", 404, "Usuario no encontrado")
             /\ UNCHANGED reqs
        ELSE /\ reqs' = [reqs EXCEPT ![r] = [pc |-> "deactivate:comparePassword",
                                             body |-> body,
                                             user |-> CHOOSE u \in found : TRUE]]
             /\ UNCHANGED resp
  /\ UNCHANGED users

\* isPasswordValid = await user.comparePassword(password); 400
PutDeactivateCompare(r) ==
  /\ reqs[r].pc = "deactivate:comparePassword"
  /\ IF ~Compare(reqs[r].body.password, reqs[r].user.password)
     THEN /\ resp' = UserResponse("PUT /deactivate", 400, "Contraseña incorrecta")
          /\ reqs' = [reqs EXCEPT ![r] = Idle]
     ELSE /\ reqs' = [reqs EXCEPT ![r].pc = "deactivate:save"]
          /\ UNCHANGED resp
  /\ UNCHANGED users

\* user.isActive = false; await user.save() (deactivationReason and
\* deactivatedAt are no paths of the schema and are not stored); 500 from the
\* catch, or on to Product.updateMany
PutDeactivateSave(r) ==
  /\ reqs[r].pc = "deactivate:save"
  /\ LET saved == SaveUser(users, reqs[r].user, [isActive |-> FALSE])
     IN /\ users' = saved.users
        /\ IF saved.outcome = "ok"
           THEN /\ reqs' = [reqs EXCEPT ![r].pc = "deactivate:updateMany"]
                /\ UNCHANGED resp
           ELSE /\ resp' = UserResponse("PUT /deactivate", 500,
                                        "Error interno del servidor")
                /\ reqs' = [reqs EXCEPT ![r] = Idle]

\* await Product.updateMany(...) (products are outside the model); 200
PutDeactivateUpdateMany(r) ==
  /\ reqs[r].pc = "deactivate:updateMany"
  /\ resp' = UserResponse("PUT /deactivate", 200,
                          "Cuenta desactivada exitosamente")
  /\ reqs' = [reqs EXCEPT ![r] = Idle]
  /\ UNCHANGED users

\* router.patch('/users/:userId/status'):
\* await User.findByIdAndUpdate(userId, { isActive }, { new: true }); 404 or 200
PatchUserStatus(userId, isActive) ==
  /\ LET found == {u \in Live(users) : u.id = userId}
         updated == {[u EXCEPT !.isActive = isActive] : u \in found}
     IN IF found = {}
        THEN /\ resp' = UserResponse("PATCH /users/:userId/status", 404,
                                     "Usuario no encontrado")
             /\ UNCHANGED users
        ELSE /\ users' = (users \ found) \cup updated
             /\ resp' = [op |-> "PATCH /users/:userId/status", status |-> 200,
                         message |-> IF isActive THEN "Usuario reactivado exitosamente"
                                     ELSE "Usuario suspendido exitosamente",
                         user |-> toJSON(CHOOSE u \in updated : TRUE)]
  /\ UNCHANGED reqs

\* SpecAuth: a registration, login, profile or deactivation request in slot 1
\* and a change of password in slot 2, while users are suspended, reactivated
\* and deleted
AuthSlots == {1, 2}

InitAuth ==
  /\ IdleMethods
  /\ IdleSystem
  /\ users = {}
  /\ reviews = {}
  /\ reports = <<>>
  /\ reqs = [r \in AuthSlots |-> Idle]

NextAuth ==
  \/ \E r \in FirstIdle({1}) :
       \/ \E body \in {b \in RegisterBodies : b.email \in AuthEmails /\ b.userType = <<>>} :
            /\ Cardinality(users) < MaxUsers
            /\ StartRegister(r, body)
            /\ UNCHANGED authFrame
       \/ \E body \in LoginBodies : StartLogin(r, body) /\ UNCHANGED authFrame
       \/ \E header \in Headers(users) : authMiddleware(r, header) /\ UNCHANGED authFrame
       \/ \E u \in users, body \in DeactivateBodies :
            PutDeactivate(r, u.id, body) /\ UNCHANGED authFrame
  \/ \E r \in FirstIdle({2}), u \in users, body \in ChangePasswordBodies :
       ChangePassword(r, u.id, body) /\ UNCHANGED authFrame
  \/ \E r \in AuthSlots :
       \/ RegisterFindOne(r) /\ UNCHANGED authFrame
       \/ RegisterSave(r) /\ UNCHANGED authFrame
       \/ LoginFindOne(r) /\ UNCHANGED authFrame
       \/ LoginCompare(r) /\ UNCHANGED authFrame
       \/ authMiddlewareFindById(r) /\ UNCHANGED authFrame
       \/ GetProfile(r) /\ UNCHANGED authFrame
       \/ ChangePasswordCompare(r) /\ UNCHANGED authFrame
       \/ ChangePasswordSave(r) /\ UNCHANGED authFrame
       \/ PutDeactivateCompare(r) /\ UNCHANGED authFrame
       \/ PutDeactivateSave(r) /\ UNCHANGED authFrame
       \/ PutDeactivateUpdateMany(r) /\ UNCHANGED authFrame
  \/ \E u \in users, isActive \in BOOLEAN :
       PatchUserStatus(u.id, isActive) /\ UNCHANGED authFrame
  \/ \E u \in users, body \in {b \in ProfileBodies : b.email = <<>> /\ b.userType = <<>>
                                                       /\ b.reputation = <<>>} :
       PutProfile(u.id, body) /\ UNCHANGED authFrame
  \/ \E u \in users : DeleteUser(u) /\ UNCHANGED authFrame
  \/ \E u \in users : DeactivateUser(u) /\ UNCHANGED authFrame

SpecAuth == InitAuth /\ [][NextAuth]_vars

---------------------------------------------------------------------------
(* Properties of authentication, checked under SpecAuth *)

\* C13 (SpecAuth): GET /api/auth/profile with a token that verifies, for a user
\* that is no longer stored when the request arrives, is answered 404
\* 'Usuario no encontrado'.
C13_ProfileOfDeletedUser ==
  [][\A r \in DOMAIN reqs :
       (/\ reqs[r].pc \in {"auth:findById", "profile:findById"}
        /\ reqs[r].userMissing
        /\ reqs'[r].pc = "idle")
       => /\ resp'.status = 404
          /\ resp'.message = "Usuario no encontrado"]_vars

\* the handler behind authMiddleware starts only for a token that verifies and
\* names a stored user with isActive = true
HandlerReached ==
  \A r \in DOMAIN reqs :
    (reqs[r].pc # "profile:findById" /\ reqs'[r].pc = "profile:findById")
    => /\ reqs[r].pc = "auth:findById"
       /\ Verify(reqs[r].decoded) = "ok"
       /\ \E u \in Live(users) : u.id = reqs[r].decoded.userId /\ u.isActive

\* a request without a token is answered 401 'Token no proporcionado' and the
\* handler is not run
NoTokenRejected ==
  (resp.op = "GET /profile" /\ HeaderToken(resp.req) = <<>>)
  => (resp.status = 401 /\ resp.message = "Token no proporcionado" /\ ~resp.handler)

\* a request whose token jwt.verify rejects, for the reasons `errors`, is
\* answered 401 with `message` and the handler is not run
TokenRejected(errors, message) ==
  (/\ resp.op = "GET /profile"
   /\ HeaderToken(resp.req) # <<>>
   /\ Verify(HeaderToken(resp.req)[1]) \in errors)
  => (resp.status = 401 /\ resp.message = message /\ ~resp.handler)

\* C14 as stated: every token that does not verify is answered 'Token inválido'.
C14_AnyUnverifiedTokenInvalid ==
  /\ [](/\ NoTokenRejected
        /\ TokenRejected({"JsonWebTokenError", "TokenExpiredError"}, "Token inválido"))
  /\ [][HandlerReached]_vars

\* C14 (SpecAuth): a handler behind authMiddleware is reached only when the
\* token verifies and names a stored user with isActive = true; without a token
\* the answer is 401 'Token no proporcionado'; with a token whose signature or
\* form jwt.verify rejects it is 401 'Token inválido'; with a token that has
\* expired it is 401 'Token expirado'; in these cases the handler is not run.
C14_AuthGate ==
  /\ [](/\ NoTokenRejected
        /\ TokenRejected({"JsonWebTokenError"}, "Token inválido")
        /\ TokenRejected({"TokenExpiredError"}, "Token expirado"))
  /\ [][HandlerReached]_vars

\* an expired token of a stored, active user has been answered 'Token expirado'
C14_Witness ==
  /\ resp.op = "GET /profile"
  /\ resp.message = "Token expirado"
  /\ \E u \in Live(users) :
       u.isActive /\ HeaderToken(resp.req) = <<[Sign(u) EXCEPT !.expired = TRUE]>>

\* the one answer to a login that fails
InvalidCredentials(body) ==
  [op |-> "POST /login", req |-> body, status |-> 401,
   message |-> "Credenciales inválidas", token |-> <<>>]

\* C15 (SpecAuth): POST /api/auth/login gives a token only for the user that
\* findOne read as stored and active under the email submitted, and whose
\* password, as read, matches the one submitted; an unknown email, a
\* deactivated user and a wrong password are all answered 401
\* 'Credenciales inválidas', with the same response.
C15_Login ==
  [][\A r \in DOMAIN reqs :
       LET q == reqs[r]
       IN /\ (q.pc = "login:findOne" /\ reqs'[r].pc = "login:compare")
             => \E u \in Live(users) :
                  /\ reqs'[r].user = u
                  /\ u.isActive
                  /\ u.email = q.body.email
          /\ (q.pc \in {"login:findOne", "login:compare"} /\ reqs'[r].pc = "idle")
             => /\ resp'.token # <<>> =>
                     /\ q.pc = "login:compare"
                     /\ q.user.isActive
                     /\ q.user.email = q.body.email
                     /\ Compare(q.body.password, q.user.password)
                     /\ resp'.token[1].userId = q.user.id
                /\ (q.pc = "login:findOne"
                    /\ ~\E u \in Live(users) : u.email = q.body.email)
                   => resp' = InvalidCredentials(q.body)
                /\ (q.pc = "login:findOne"
                    /\ \E u \in Live(users) : u.email = q.body.email /\ ~u.isActive)
                   => resp' = InvalidCredentials(q.body)
                /\ (q.pc = "login:compare"
                    /\ ~Compare(q.body.password, q.user.password))
                   => resp' = InvalidCredentials(q.body)]_vars

\* a deactivated user has submitted the right password and been answered 401
C15_Witness ==
  /\ resp = InvalidCredentials([email |-> "a@x.com", password |-> "password123"])
  /\ \E u \in Live(users) :
       u.email = "a@x.com" /\ ~u.isActive /\ Compare("password123", u.password)

---------------------------------------------------------------------------
(* routes/municipal.js: POST /collection-schedule when insertMany rejects *)

\* SpecExpansion: schedules created while the database may fail during the
\* expansion
BodiesExpansion == BodiesTime \cup BodiesCapacity \cup BodiesRecurring

NextExpansion ==
  \/ \E r \in FirstIdle(RequestSlots), body \in BodiesExpansion :
       /\ Cardinality(BaseSchedules) < MaxPosts
       /\ PostSchedule(r, body)
       /\ UNCHANGED handlerFrame
  \/ \E r \in RequestSlots :
       \/ PostScheduleExpanded(r) /\ UNCHANGED handlerFrame
       \/ \E n \in 0..MaxEnd : PostScheduleInsertManyRejects(r, n) /\ UNCHANGED handlerFrame
  \/ Tick /\ UNCHANGED <<methodVars, appVars>>

SpecExpansion == Init /\ [][NextExpansion]_vars

\* C16 (SpecExpansion): creating a recurring schedule is all-or-nothing: when
\* the last step of a POST sends an error response, the collection holds
\* neither the base schedule of that request nor a follow-up of it (a request
\* refused before its save leaves the collection as it was), and after a 201
\* the base schedule and every follow-up of the expansion are stored.
C16_AllOrNothing ==
  /\ []((resp.op = "POST /collection-schedule" /\ resp.status = 201) =>
          /\ resp.schedule \in BaseSchedules
          /\ LET base == schedules[resp.schedule]
             IN base.recurring.enabled =>
                  {schedules[f].scheduledDate : f \in FollowUps(resp.schedule)}
                    = Range(RecurringDates(base.scheduledDate, base.recurring.endDate[1],
                                           base.recurring.interval[1])))
  /\ [][\A r \in RequestSlots :
          /\ (/\ reqs[r].pc = "post:createRecurringSchedules"
              /\ reqs'[r].pc = "idle"
              /\ resp'.status # 201)
             => \A i \in DOMAIN schedules' :
                  /\ schedules'[i].id # reqs[r].schedule.id
                  /\ schedules'[i].recurring.parentSchedule # <<reqs[r].schedule.id>>
          /\ (/\ reqs[r].pc = "idle"
              /\ reqs'[r].pc = "idle"
              /\ resp' # resp
              /\ resp'.status # 201)
             => schedules' = schedules]_vars

---------------------------------------------------------------------------
(* optimize-route on stored schedules, checked under Spec *)

\* C17 (Spec): the date of a schedule has to be in the future only when the
\* schedule is created: for every stored schedule, also one whose date has
\* passed, a PATCH optimize-route whose save finds the version it loaded stores
\* the reordered route and answers 200 with the summary.
C17_OptimizeAfterDate ==
  [][\A r \in RequestSlots :
       (/\ reqs[r].pc = "optimize:save"
        /\ reqs'[r].pc = "idle"
        /\ schedules[reqs[r].id].version = reqs[r].schedule.version)
       => /\ resp'.op = "PATCH optimize-route"
          /\ resp'.status = 200
          /\ resp'.id = reqs[r].id
          /\ schedules'[resp'.id].route = optimizeRoute(schedules[resp'.id]).ret
          /\ resp'.originalPoints = Len(schedules[resp'.id].route)]_vars

---------------------------------------------------------------------------
(* routes/municipal.js: concurrent optimize-route requests, one step per await *)

\* SpecOptimize: a schedule is created, then optimize-route requests run
\* concurrently on it
InitOptimize ==
  /\ IdleMethods
  /\ IdleSystem
  /\ users = {}
  /\ reviews = {}
  /\ reports = <<>>
  /\ reqs = [r \in 1..MaxInFlight |-> Idle]

NextOptimize ==
  \/ \E r \in FirstIdle(1..MaxInFlight) :
       \/ \E body \in BodiesRoute :
            /\ Cardinality(BaseSchedules) < MaxPosts
            /\ PostSchedule(r, body)
            /\ UNCHANGED handlerFrame
       \/ \E id \in 1..(Len(schedules) + 1) : OptimizeLoad(r, id) /\ UNCHANGED handlerFrame
  \/ \E r \in 1..MaxInFlight : OptimizeSave(r) /\ UNCHANGED handlerFrame
  \/ Tick /\ UNCHANGED <<methodVars, appVars>>

SpecOptimize == InitOptimize /\ [][NextOptimize]_vars

\* one sequence is a rearrangement of the other
IsPermutation(s, t) ==
  /\ Len(s) = Len(t)
  /\ \A x \in Range(s) \cup Range(t) : Count(x, s) = Count(x, t)

\* C18 (SpecOptimize): under every interleaving of the load and save steps of
\* concurrent optimize-route requests on a schedule, the stored route changes
\* only when a request saves, each save leaves a rearrangement of the route
\* stored before it, and after a save answered 200 the stored route is the
\* route of the request that saved (a save refused for its version writes
\* nothing): the final route is a permutation of the initial one and equals
\* the route written by the last saver.
C18_LastWriteWins ==
  [][\A id \in DOMAIN schedules :
       /\ schedules'[id].route # schedules[id].route
          => /\ \E r \in DOMAIN reqs :
                  reqs[r].pc = "optimize:save" /\ reqs[r].id = id /\ reqs'[r].pc = "idle"
             /\ IsPermutation(schedules'[id].route, schedules[id].route)
       /\ \A r \in DOMAIN reqs :
            (/\ reqs[r].pc = "optimize:save"
             /\ reqs[r].id = id
             /\ reqs'[r].pc = "idle"
             /\ resp'.status = 200)
            => schedules'[id].route = reqs[r].schedule.route]_vars

\* a request has saved the reordered route while another one, which loaded the
\* route before that save, is about to save
C18_Witness ==
  /\ resp.op = "PATCH optimize-route"
  /\ resp.status = 200
  /\ \E r \in DOMAIN reqs :
       /\ reqs[r].pc = "optimize:save"
       /\ reqs[r].id = resp.id
       /\ reqs[r].originalRoute # schedules[resp.id].route
       /\ Len(reqs[r].originalRoute) = 4

---------------------------------------------------------------------------
(* routes/reviews.js and models/Review.js *)

\* the Transaction collection, which the review routes only read: two
\* completed donations to user 2, one pending donation
Transactions ==
  {[id |-> 1, donor |-> 1, recipient |-> 2, status |-> "completed"],
   [id |-> 2, donor |-> 3, recipient |-> 2, status |-> "completed"],
   [id |-> 3, donor |-> 1, recipient |-> 2, status |-> "pending"]}

\* the users of those transactions, as registration stores them
ReviewUsers ==
  {UserPreSave(NewUser([email |-> "a@x.com", password |-> "password123", userType |-> <<>>], 1)),
   UserPreSave(NewUser([email |-> "b@x.com", password |-> "password123", userType |-> <<>>], 2)),
   UserPreSave(NewUser([email |-> "c@x.com", password |-> "password123", userType |-> <<>>], 3))}

\* the requests: req.user.userId and req.body {transactionId, rating}
ReviewRequests ==
  {[userId |-> 1, transactionId |-> 1, rating |-> 5],
   [userId |-> 3, transactionId |-> 2, rating |-> 4],
   [userId |-> 2, transactionId |-> 1, rating |-> 3],
   [userId |-> 1, transactionId |-> 1, rating |-> 6],
   [userId |-> 1, transactionId |-> 2, rating |-> 5],
   [userId |-> 1, transactionId |-> 3, rating |-> 5],
   [userId |-> 1, transactionId |-> 4, rating |-> 5]}

\* mutant: the collection has no unique index on {transaction, reviewer}
InsertReviewNoIndex(coll, review) == "ok"

\* insert under reviewSchema.index({ transaction: 1, reviewer: 1 }, { unique: true })
InsertReview(coll, review) ==
  IF \E v \in coll : v.transaction = review.transaction /\ v.reviewer = review.reviewer
  THEN "E11000" ELSE "ok"

RECURSIVE SumRatings(_)
\* reviews.reduce((sum, r) => sum + r.rating, 0)
SumRatings(S) ==
  IF S = {} THEN 0
  ELSE LET v == CHOOSE v \in S : TRUE IN v.rating + SumRatings(S \ {v})

\* Math.round(averageRating * 10) / 10, in tenths
RoundTenths(sum, length) == (20 * sum + length) \div (2 * length)

\* router.post('/'): validation, then `await Transaction.findById(transactionId)`
StartReview(r, req) ==
  /\ reqs[r].pc = "idle"
  /\ IF ~(req.rating >= 1 /\ req.rating <= 5)
     THEN /\ resp' = [op |-> "POST /reviews", req |-> req, status |-> 400, message |-> "errors"]
          /\ UNCHANGED reqs
     ELSE /\ reqs' = [reqs EXCEPT ![r] =
                        [pc |-> "review:transaction", req |-> req,
                         \* history: the reviewer's review of the transaction was
                         \* stored when the request arrived
                         reviewExisted |-> \E v \in reviews :
                            v.transaction = req.transactionId /\ v.reviewer = req.userId]]
          /\ UNCHANGED resp
  /\ UNCHANGED <<users, reviews>>

\* the transaction is found: 404, 400, 403, or `await Review.findOne(...)`
ReviewTransaction(r) ==
  /\ reqs[r].pc = "review:transaction"
  /\ LET req == reqs[r].req
         found == {t \in Transactions : t.id = req.transactionId}
         transaction == CHOOSE t \in found : TRUE
     IN IF found = {}
        THEN /\ resp' = [op |-> "POST /reviews", req |-> req, status |-> 404,
                         message |-> "Transacción no encontrada"]
             /\ reqs' = [reqs EXCEPT ![r] = Idle]
        ELSE IF transaction.status # "completed"
        THEN /\ resp' = [op |-> "POST /reviews", req |-> req, status |-> 400,
                         message |-> "Solo se pueden calificar transacciones completadas"]
             /\ reqs' = [reqs EXCEPT ![r] = Idle]
        ELSE IF ~(transaction.donor = req.userId \/ transaction.recipient = req.userId)
        THEN /\ resp' = [op |-> "POST /reviews", req |-> req, status |-> 403,
                         message |-> "No autorizado para calificar esta transacción"]
             /\ reqs' = [reqs EXCEPT ![r] = Idle]
        ELSE /\ reqs' = [reqs EXCEPT ![r] =
                           [pc |-> "review:findOne", req |-> req,
                            reviewExisted |-> reqs[r].reviewExisted,
                            reviewee |-> IF transaction.donor = req.userId
                                         THEN transaction.recipient ELSE transaction.donor]]
             /\ UNCHANGED resp
  /\ UNCHANGED <<users, reviews>>

\* existingReview = await Review.findOne({transaction, reviewer}); 409, or save issued
ReviewFindOne(r) ==
  /\ reqs[r].pc = "review:findOne"
  /\ IF \E v \in reviews : v.transaction = reqs[r].req.transactionId
                           /\ v.reviewer = reqs[r].req.userId
     THEN /\ resp' = [op |-> "POST /reviews", req |-> reqs[r].req, status |-> 409,
                      message |-> "Ya has calificado esta transacción"]
          /\ reqs' = [reqs EXCEPT ![r] = Idle]
     ELSE /\ reqs' = [reqs EXCEPT ![r].pc = "review:save"]
          /\ UNCHANGED resp
  /\ UNCHANGED <<users, reviews>>

\* await review.save(): the review is stored, or the error is answered 500
ReviewSave(r) ==
  /\ reqs[r].pc = "review:save"
  /\ LET review == [id |-> Cardinality(reviews) + 1,
                    transaction |-> reqs[r].req.transactionId,
                    reviewer |-> reqs[r].req.userId,
                    reviewee |-> reqs[r].reviewee,
                    rating |-> reqs[r].req.rating]
     IN IF InsertReview(reviews, review) # "ok"
        THEN /\ resp' = [op |-> "POST /reviews", req |-> reqs[r].req, status |-> 500,
                         message |-> "Error interno del servidor"]
             /\ reqs' = [reqs EXCEPT ![r] = Idle]
             /\ UNCHANGED reviews
        ELSE /\ reviews' = reviews \cup {review}
             /\ reqs' = [reqs EXCEPT ![r].pc = "review:find"]
             /\ UNCHANGED resp
  /\ UNCHANGED users

\* reviews = await Review.find({ reviewee }); the average is computed
ReviewFind(r) ==
  /\ reqs[r].pc = "review:find"
  /\ LET found == {v \in reviews : v.reviewee = reqs[r].reviewee}
     IN reqs' = [reqs EXCEPT ![r] =
                   [pc |-> "review:update", req |-> reqs[r].req,
                    reviewExisted |-> reqs[r].reviewExisted,
                    reviewee |-> reqs[r].reviewee,
                    average |-> RoundTenths(SumRatings(found), Cardinality(found)),
                    count |-> Cardinality(found)]]
  /\ UNCHANGED <<users, reviews, resp>>

\* await User.findByIdAndUpdate(reviewee, {reputation...})
ReviewUpdate(r) ==
  /\ reqs[r].pc = "review:update"
  /\ users' = {IF u.id = reqs[r].reviewee /\ ~u.deleted
               THEN [u EXCEPT !.reputation = [average |-> reqs[r].average,
                                              count |-> reqs[r].count]]
               ELSE u : u \in users}
  /\ reqs' = [reqs EXCEPT ![r].pc = "review:findById"]
  /\ UNCHANGED <<reviews, resp>>

\* populatedReview = await Review.findById(review._id).populate(...); 201
ReviewFindById(r) ==
  /\ reqs[r].pc = "review:findById"
  /\ resp' = [op |-> "POST /reviews", req |-> reqs[r].req, status |-> 201,
              message |-> "Reseña creada exitosamente"]
  /\ reqs' = [reqs EXCEPT ![r] = Idle]
  /\ UNCHANGED <<users, reviews>>

\* the same await in a run where the query rejects (the connection or the
\* server fails): the catch block answers 500 after the review and the
\* reputation have been written
ReviewFindByIdRejects(r) ==
  /\ reqs[r].pc = "review:findById"
  /\ resp' = [op |-> "POST /reviews", req |-> reqs[r].req, status |-> 500,
              message |-> "Error interno del servidor"]
  /\ reqs' = [reqs EXCEPT ![r] = Idle]
  /\ UNCHANGED <<users, reviews>>

\* SpecReviews: concurrent POST /api/reviews requests, while user 2 writes the
\* reputation of their profile
reviewFrame == <<doc, call, schedules, materials, now, reports>>

InitReviews ==
  /\ IdleMethods
  /\ IdleSystem
  /\ users = ReviewUsers
  /\ reviews = {}
  /\ reports = <<>>
  /\ reqs = [r \in 1..MaxInFlight |-> Idle]

NextReviews ==
  \E r \in 1..MaxInFlight :
    \/ \E req \in ReviewRequests : StartReview(r, req) /\ UNCHANGED reviewFrame
    \/ ReviewTransaction(r) /\ UNCHANGED reviewFrame
    \/ ReviewFindOne(r) /\ UNCHANGED reviewFrame
    \/ ReviewSave(r) /\ UNCHANGED reviewFrame
    \/ ReviewFind(r) /\ UNCHANGED reviewFrame
    \/ ReviewUpdate(r) /\ UNCHANGED reviewFrame
    \/ ReviewFindById(r) /\ UNCHANGED reviewFrame
    \/ ReviewFindByIdRejects(r) /\ UNCHANGED reviewFrame
    \/ \E body \in {b \in ProfileBodies : b.reputation # <<>>} :
         r = 1 /\ PutProfile(2, body) /\ UNCHANGED authFrame

SpecReviews == InitReviews /\ [][NextReviews]_vars

\* C19 (SpecReviews): under every interleaving of POST /api/reviews requests at
\* most one review is stored for a pair (transaction, reviewer); no step of a
\* request that arrived when its reviewer's review of the transaction was
\* stored changes the reviews or any user's reputation.
C19_OneReviewPerPair ==
  /\ [](\A v \in reviews, w \in reviews :
          (v.transaction = w.transaction /\ v.reviewer = w.reviewer) => v = w)
  /\ [][\A r \in DOMAIN reqs :
          (reqs[r].pc # "idle" /\ reqs[r].reviewExisted /\ reqs'[r] # reqs[r])
          => (reviews' = reviews /\ users' = users)]_vars

\* user 1 has reviewed transaction 1 and asked again: 409; user 2 has two
\* reviews and the reputation computed from them
C19_Witness ==
  /\ resp.op = "POST /reviews"
  /\ resp.status = 409
  /\ resp.req.userId = 1
  /\ \E v \in reviews : v.transaction = 1 /\ v.reviewer = 1 /\ v.rating = 5
  /\ \E u \in users : u.id = 2 /\ u.reputation = [average |-> 45, count |-> 2]

---------------------------------------------------------------------------
(* models/Report.js, and the requests of routes/materials.js and
   routes/municipal.js that save a report.  In SpecReports the clock `now`
   counts half minutes. *)

MaxTimeline == 2     \* entries of a report's timeline before a request or save starts

ReportStatuses ==
  {"pending", "reviewing", "investigating", "resolved", "dismissed", "escalated"}

\* the enum of target.targetType
TargetTypes == {"user", "product", "transaction", "chat", "review"}

\* Math.round((now - this.createdAt) / (1000 * 60)) for times in half minutes
RoundElapsedMinutes(t, createdAt) == (t - createdAt + 1) \div 2

\* `!x` for an optional number: undefined and 0 are falsy
FalsyNumber(x) == x = <<>> \/ x[1] = 0

\* `!x` for an optional Date: only undefined is falsy
FalsyDate(x) == x = <<>>

\* new Report({...}) with the schema's defaults and the timestamp of the save
NewReport(id, targetType, t) ==
  [id |-> id, targetType |-> targetType, status |-> "pending", createdAt |-> t,
   assignedTo |-> <<>>, assignedAt |-> <<>>,
   metrics |-> [responseTime |-> <<>>, resolutionTime |-> <<>>],
   resolvedAt |-> <<>>,
   timeline |-> <<>>, adminNotes |-> <<>>]

\* the validators of the schema that a save can fail: the enum of targetType
ReportSchemaValid(d) == d.targetType \in TargetTypes

\* reportSchema.pre('save') on a document whose status path is or is not modified
ReportPreSave(d, modified, t) ==
  IF ~modified THEN d
  ELSE LET first  == d.status # "pending" /\ FalsyNumber(d.metrics.responseTime)
           second == d.status \in {"resolved", "dismissed"} /\ FalsyDate(d.resolvedAt)
       IN [d EXCEPT
             !.metrics.responseTime =
                IF first THEN <<RoundElapsedMinutes(t, d.createdAt)>> ELSE @,
             !.resolvedAt = IF second THEN <<t>> ELSE @,
             !.metrics.resolutionTime =
                IF second THEN <<RoundElapsedMinutes(t, d.createdAt)>> ELSE @,
             !.timeline = Append(@, [action |-> "status_change", description |-> d.status])]

\* report.save() of a loaded document changed to `after`: validation, the
\* pre-save hook, then the update sets the paths that differ from the document
\* as loaded and pushes the new entries of the arrays onto the stored ones
SaveReport(stored, loaded, after, t) ==
  IF ~ReportSchemaValid(after) THEN [outcome |-> "ValidationError", doc |-> stored]
  ELSE
    LET hooked == ReportPreSave(after, after.status # loaded.status, t)
        Set(old, was, new) == IF new # was THEN new ELSE old
    IN [outcome |-> "ok",
        doc |-> [stored EXCEPT
                   !.status = Set(@, loaded.status, hooked.status),
                   !.assignedTo = Set(@, loaded.assignedTo, hooked.assignedTo),
                   !.assignedAt = Set(@, loaded.assignedAt, hooked.assignedAt),
                   !.metrics.responseTime =
                      Set(@, loaded.metrics.responseTime, hooked.metrics.responseTime),
                   !.metrics.resolutionTime =
                      Set(@, loaded.metrics.resolutionTime, hooked.metrics.resolutionTime),
                   !.resolvedAt = Set(@, loaded.resolvedAt, hooked.resolvedAt),
                   !.timeline = @ \o SubSeq(hooked.timeline, Len(loaded.timeline) + 1,
                                            Len(hooked.timeline))]]

\* a save of a stored report after `report.status = status`, for a status of
\* the schema's enum: the hook runs on the document and the document is written
SaveReportStatus(i, status) ==
  /\ i \in DOMAIN reports
  /\ Len(reports[i].timeline) < MaxTimeline
  /\ reports' = [reports EXCEPT ![i] =
                   SaveReport(reports[i], reports[i],
                              [reports[i] EXCEPT !.status = status], now).doc]
  /\ UNCHANGED <<users, reviews, reqs, materials, resp>>

ReportBodies ==
  [issueType : {"other", "spam"}, description : {"", "d"}, suggestion : {<<>>, <<"s">>}]

\* router.post('/:id/report'): validation, then
\* `await Material.findById(req.params.id)`; 400, 404, or the report is built
PostMaterialReport(r, id, userId, body) ==
  /\ reqs[r].pc = "idle"
  /\ IF ~(/\ body.issueType \in {"incorrect_instructions", "outdated_info",
                                  "missing_info", "other"}
          /\ body.description # "")
     THEN /\ resp' = [op |-> "POST /materials/:id/report", status |-> 400, error |-> "errors"]
          /\ UNCHANGED reqs
     ELSE IF id \notin DOMAIN materials
     THEN /\ resp' = [op |-> "POST /materials/:id/report", status |-> 404,
                      error |-> "Material no encontrado"]
          /\ UNCHANGED reqs
     ELSE /\ reqs' = [reqs EXCEPT ![r] =
                        [pc |-> "report:save",
                         report |-> [NewReport(Len(reports) + 1, "material", now) EXCEPT
                                       !.adminNotes =
                                          IF body.suggestion # <<>>
                                          THEN <<[addedBy |-> userId, private |-> FALSE]>>
                                          ELSE <<>>]]]
          /\ UNCHANGED resp
  /\ UNCHANGED <<users, reviews, reports, materials>>

\* await report.save(); 201, or 500 from the catch
PostMaterialReportSave(r) ==
  /\ reqs[r].pc = "report:save"
  /\ IF ~ReportSchemaValid(reqs[r].report)
     THEN /\ resp' = [op |-> "POST /materials/:id/report", status |-> 500,
                      error |-> "Error interno del servidor"]
          /\ UNCHANGED reports
     ELSE /\ reports' = Append(reports, reqs[r].report)
          /\ resp' = [op |-> "POST /materials/:id/report", status |-> 201, error |-> "none"]
  /\ reqs' = [reqs EXCEPT ![r] = Idle]
  /\ UNCHANGED <<users, reviews, materials>>

\* router.patch('/reports/:id/assign') up to the end of
\* `await Report.findById(req.params.id)`; 404 or the report
PatchReportAssign(r, id, userId, assignedTo) ==
  /\ reqs[r].pc = "idle"
  /\ IF id \notin DOMAIN reports
     THEN /\ resp' = [op |-> "PATCH /reports/:id/assign", status |-> 404,
                      error |-> "Reporte no encontrado"]
          /\ UNCHANGED reqs
     ELSE /\ reqs' = [reqs EXCEPT ![r] =
                        [pc |-> "assign:User.findById", report |-> reports[id],
                         userId |-> userId, assignedTo |-> assignedTo]]
          /\ UNCHANGED resp
  /\ UNCHANGED <<users, reviews, reports, materials>>

\* assignee = await User.findById(req.body.assignedTo); 400, or the report is
\* assigned, set to 'reviewing' and given a timeline entry
PatchReportAssignUser(r) ==
  /\ reqs[r].pc = "assign:User.findById"
  /\ LET assignee == {u \in Live(users) : u.id = reqs[r].assignedTo}
     IN IF assignee = {} \/ \E u \in assignee : u.userType # "comuna"
        THEN /\ resp' = [op |-> "PATCH /reports/:id/assign", status |-> 400,
                         error |-> "El usuario asignado debe ser administrador municipal"]
             /\ reqs' = [reqs EXCEPT ![r] = Idle]
        ELSE /\ reqs' = [reqs EXCEPT ![r] =
                           [pc |-> "assign:save", report |-> reqs[r].report,
                            after |-> [reqs[r].report EXCEPT
                                         !.assignedTo = <<reqs[r].assignedTo>>,
                                         !.assignedAt = <<now>>,
                                         !.status = "reviewing",
                                         !.timeline =
                                            Append(@, [action |-> "assigned",
                                                       description |-> reqs[r].assignedTo])]]]
             /\ UNCHANGED resp
  /\ UNCHANGED <<users, reviews, reports, materials>>

\* await report.save(); 200, or 500 from the catch
PatchReportAssignSave(r) ==
  /\ reqs[r].pc = "assign:save"
  /\ LET id == reqs[r].report.id
         saved == SaveReport(reports[id], reqs[r].report, reqs[r].after, now)
     IN /\ reports' = [reports EXCEPT ![id] = saved.doc]
        /\ resp' = IF saved.outcome = "ok"
                   THEN [op |-> "PATCH /reports/:id/assign", status |-> 200, error |-> "none"]
                   ELSE [op |-> "PATCH /reports/:id/assign", status |-> 500,
                         error |-> "Error interno del servidor"]
  /\ reqs' = [reqs EXCEPT ![r] = Idle]
  /\ UNCHANGED <<users, reviews, materials>>

\* SpecReports: one report of a product is stored, with a municipal and an
\* individual user and one material; reports of a material are sent, user 2
\* changes the userType of their profile, the stored report is assigned to
\* user 2 or to an unknown user, and its status is saved as time passes
ReportUsers ==
  {UserPreSave(NewUser([email |-> "a@x.com", password |-> "password123",
                        userType |-> <<"comuna">>], 1)),
   UserPreSave(NewUser([email |-> "b@x.com", password |-> "password123", userType |-> <<>>], 2))}

reportFrame == <<doc, call, schedules, now>>

InitReports ==
  /\ IdleMethods
  /\ schedules = <<>>
  /\ materials = <<[id |-> 1, minWeight |-> 0, maxWeight |-> 1, isActive |-> TRUE]>>
  /\ now = 0
  /\ resp = [op |-> "none", status |-> 0, error |-> "none"]
  /\ users = ReportUsers
  /\ reviews = {}
  /\ reports = <<NewReport(1, "product", 0)>>
  /\ reqs = [r \in RequestSlots |-> Idle]

NextReports ==
  \/ \E r \in FirstIdle({1}), id \in 1..2, body \in ReportBodies :
       PostMaterialReport(r, id, 2, body) /\ UNCHANGED reportFrame
  \/ \E r \in FirstIdle(RequestSlots), id \in 1..2, assignedTo \in 2..3 :
       /\ \A i \in DOMAIN reports : Len(reports[i].timeline) < MaxTimeline
       /\ PatchReportAssign(r, id, 1, assignedTo)
       /\ UNCHANGED reportFrame
  \/ \E r \in RequestSlots :
       \/ PostMaterialReportSave(r) /\ UNCHANGED reportFrame
       \/ PatchReportAssignUser(r) /\ UNCHANGED reportFrame
       \/ PatchReportAssignSave(r) /\ UNCHANGED reportFrame
  \/ \E i \in DOMAIN reports, status \in ReportStatuses :
       SaveReportStatus(i, status) /\ UNCHANGED reportFrame
  \/ \E body \in {b \in ProfileBodies : b.userType \in {<<"individual">>, <<"comuna">>}} :
       PutProfile(2, body) /\ UNCHANGED authFrame
  \/ Tick /\ UNCHANGED <<methodVars, appVars>>

SpecReports == InitReports /\ [][NextReports]_vars

\* C20 (SpecReports): metrics.responseTime is assigned at the first save that
\* finds a status other than 'pending' and no later save changes it; resolvedAt
\* and metrics.resolutionTime are assigned at the first save that finds the
\* status 'resolved' or 'dismissed' and no later save changes them; also when
\* less than a minute has passed since the report was created.
C20_MetricsAssignedOnce ==
  /\ [](\A i \in DOMAIN reports :
          /\ reports[i].status # "pending" => reports[i].metrics.responseTime # <<>>
          /\ reports[i].status \in {"resolved", "dismissed"} =>
               (reports[i].resolvedAt # <<>> /\ reports[i].metrics.resolutionTime # <<>>))
  /\ [][\A i \in DOMAIN reports :
          /\ reports[i].metrics.responseTime # <<>> =>
               reports'[i].metrics.responseTime = reports[i].metrics.responseTime
          /\ reports[i].resolvedAt # <<>> =>
               reports'[i].resolvedAt = reports[i].resolvedAt
          /\ reports[i].metrics.resolutionTime # <<>> =>
               reports'[i].metrics.resolutionTime = reports[i].metrics.resolutionTime]_vars

---------------------------------------------------------------------------
(* middleware/errorHandler.js *)

\* the errors handed to errorHandler: name, code ("11000" stands for the number),
\* status, message, and the properties `errors` and `keyValue` when present
\* as the libraries raise them: a mongoose ValidationError carries `errors`, a
\* duplicate key error of the driver carries `keyValue`
Errors ==
  {err \in [name : {"ValidationError", "CastError", "JsonWebTokenError",
                    "MongoServerError", "MulterError", "Error"},
            code : {"undefined", "11000", "LIMIT_FILE_SIZE"},
            status : {<<>>, <<0>>, <<404>>},
            message : {<<>>, <<"">>, <<"boom">>},
            errors : {<<>>, <<<<"El nombre es requerido">>>>},
            keyValue : {<<>>, <<"email">>}] :
     /\ err.name = "ValidationError" => err.errors # <<>>
     /\ err.code = "11000" => err.keyValue # <<>>}

\* the module has no `require('multer')`: the identifier `multer` is not bound
MulterBound == FALSE

\* `x || fallback` for an optional number: undefined and 0 give the fallback
OrNumber(x, fallback) == IF x = <<>> \/ x[1] = 0 THEN fallback ELSE x[1]

\* `x || fallback` for an optional string: undefined and '' give the fallback
OrString(x, fallback) == IF x = <<>> \/ x[1] = "" THEN fallback ELSE x[1]

\* errorHandler(err, req, res, next): the responses sent and the error thrown
errorHandler(err) ==
  IF err.name = "ValidationError"
  THEN IF err.errors = <<>>
       THEN [sent |-> <<>>, thrown |-> "TypeError"]
       ELSE [sent |-> <<[status |-> 400, message |-> "Error de validación",
                         errors |-> err.errors[1]]>>,
             thrown |-> "none"]
  ELSE IF err.name = "CastError"
  THEN [sent |-> <<[status |-> 400, message |-> "Formato de ID inválido"]>>,
        thrown |-> "none"]
  ELSE IF err.code = "11000"
  THEN IF err.keyValue = <<>>
       THEN [sent |-> <<>>, thrown |-> "TypeError"]
       ELSE [sent |-> <<[status |-> 409,
                         message |-> <<"El ", err.keyValue[1], " ya está en uso">>]>>,
             thrown |-> "none"]
  ELSE IF err.name = "JsonWebTokenError"
  THEN [sent |-> <<[status |-> 401, message |-> "Token inválido"]>>, thrown |-> "none"]
  ELSE IF ~MulterBound
  THEN [sent |-> <<>>, thrown |-> "ReferenceError"]
  ELSE IF err.name = "MulterError"
  THEN IF err.code = "LIMIT_FILE_SIZE"
       THEN [sent |-> <<[status |-> 400, message |-> "El archivo es demasiado grande"]>>,
             thrown |-> "none"]
       ELSE [sent |-> <<[status |-> 400, message |-> "Error en la carga del archivo"]>>,
             thrown |-> "none"]
  ELSE [sent |-> <<[status |-> OrNumber(err.status, 500),
                    message |-> OrString(err.message, "Error interno del servidor")]>>,
        thrown |-> "none"]

\* SpecErrors: errorHandler called with each error
CallErrorHandler(err) ==
  /\ call' = [name |-> "errorHandler", args |-> <<err>>, self |-> doc,
              ret |-> errorHandler(err)]
  /\ UNCHANGED <<doc, sysVars, appVars>>

NextErrors == \E err \in Errors : CallErrorHandler(err)

SpecErrors == Init /\ [][NextErrors]_vars

\* C21 (SpecErrors): errorHandler sends exactly one response and does not
\* throw: 400 for a ValidationError, 400 for a CastError, 409 for a duplicate
\* key (code 11000), 401 for a JsonWebTokenError, and for an error that is none
\* of these the status err.status or 500 with the message err.message or
\* 'Error interno del servidor'.
C21_OneResponse ==
  call.name = "errorHandler" =>
    LET err == call.args[1]
        out == call.ret
    IN /\ out.thrown = "none"
       /\ Len(out.sent) = 1
       /\ IF err.name = "ValidationError" THEN out.sent[1].status = 400
          ELSE IF err.name = "CastError" THEN out.sent[1].status = 400
          ELSE IF err.code = "11000" THEN out.sent[1].status = 409
          ELSE IF err.name = "JsonWebTokenError" THEN out.sent[1].status = 401
          ELSE /\ out.sent[1].status = OrNumber(err.status, 500)
               /\ out.sent[1].message = OrString(err.message, "Error interno del servidor")

---------------------------------------------------------------------------
(* config/redis.js: RedisClient *)

\* JavaScript values a wrapper returns
Null == [type |-> "null"]
Undefined == [type |-> "undefined"]
Bool(b) == [type |-> "boolean", bool |-> b]
Num(n) == [type |-> "number", num |-> n]
Str(s) == [type |-> "string", str |-> s]
Arr(items) == [type |-> "array", items |-> items]
Obj(fields) == [type |-> "object", fields |-> fields]

\* constructor: client = null, isConnected = false
NewRedisClient == [client |-> "null", isConnected |-> FALSE]

\* the wrapper methods
RedisOps ==
  {"get", "set", "del", "exists", "expire", "incr", "setex", "lpush", "rpop",
   "lrange", "hset", "hget", "hgetall", "deletePattern", "info"}

\* the value returned by the guard and by the catch block of each wrapper
Fallback(op) ==
  CASE op \in {"get", "rpop", "hget", "info"} -> Null
    [] op \in {"set", "setex", "del", "exists", "expire", "lpush", "hset",
               "deletePattern"} -> Bool(FALSE)
    [] op = "incr" -> Num(0)
    [] op = "lrange" -> Arr(<<>>)
    [] op = "hgetall" -> Obj(<<>>)

\* the values the underlying call of the client resolves with
Replies(op) ==
  CASE op \in {"get", "rpop", "hget"} -> {Null, Str("v")}
    [] op = "info" -> {Str("# Server")}
    [] op \in {"set", "setex"} -> {Null, Str("OK")}
    [] op \in {"del", "exists", "lpush", "hset"} -> {Num(0), Num(1)}
    [] op = "expire" -> {Bool(FALSE), Bool(TRUE)}
    [] op = "incr" -> {Num(1), Num(2)}
    [] op = "lrange" -> {Arr(<<>>), Arr(<<"v">>)}
    [] op = "hgetall" -> {Obj(<<>>), Obj(<<<<"f", "v">>>>)}

\* the value a wrapper returns when the underlying call resolved with reply
Return(op, reply) ==
  CASE op \in {"get", "incr", "rpop", "lrange", "hget", "hgetall", "info"} -> reply
    [] op \in {"set", "setex", "del", "expire", "lpush", "hset"} -> Bool(TRUE)
    [] op = "exists" -> Bool(reply = Num(1))

\* `if (!this.isConnected || !this.client)`
NotReady(self) == ~self.isConnected \/ self.client = "null"

\* the catch block of a wrapper, as a mutant: the error is thrown again
CatchRethrows(op) == [thrown |-> "Error", value |-> Undefined]

\* the catch block of a wrapper: the error is logged, the fallback returned
Catch(op) == [thrown |-> "none", value |-> Fallback(op)]

Returned(value) == [thrown |-> "none", value |-> value]

\* a finished call of a RedisClient method: the object when the call started
\* and when it returned, whether the underlying call failed, and the result
RedisCall(name, self, after, failed, ret) ==
  [name |-> name, args |-> <<>>, self |-> self, after |-> after,
   failed |-> failed, ret |-> ret]

\* connect(): createClient and the three `on` calls; createClient throws and
\* the catch block runs, or `await this.client.connect()` is reached
ConnectStart(r) ==
  /\ reqs[r].pc = "idle"
  /\ \/ /\ doc' = [doc EXCEPT !.client = "client"]
        /\ reqs' = [reqs EXCEPT ![r] = [pc |-> "connect:await", self |-> doc]]
        /\ UNCHANGED call
     \/ /\ doc' = [doc EXCEPT !.isConnected = FALSE]
        /\ call' = RedisCall("connect", doc, doc', TRUE, Returned(Undefined))
        /\ UNCHANGED reqs
  /\ UNCHANGED <<sysVars, users, reviews, reports>>

\* client.connect() resolves, or rejects and the catch block runs
ConnectSettle(r) ==
  /\ reqs[r].pc = "connect:await"
  /\ \E rejected \in BOOLEAN :
       /\ doc' = IF rejected THEN [doc EXCEPT !.isConnected = FALSE] ELSE doc
       /\ call' = RedisCall("connect", reqs[r].self, doc', rejected, Returned(Undefined))
  /\ reqs' = [reqs EXCEPT ![r] = Idle]
  /\ UNCHANGED <<sysVars, users, reviews, reports>>

\* the client emits 'connect'
OnConnect ==
  /\ doc.client # "null"
  /\ doc' = [doc EXCEPT !.isConnected = TRUE]
  /\ UNCHANGED <<call, reqs, sysVars, users, reviews, reports>>

\* the client emits 'error'
OnError ==
  /\ doc.client # "null"
  /\ doc' = [doc EXCEPT !.isConnected = FALSE]
  /\ UNCHANGED <<call, reqs, sysVars, users, reviews, reports>>

\* disconnect(): nothing to do, or `await this.client.disconnect()` is reached
DisconnectStart(r) ==
  /\ reqs[r].pc = "idle"
  /\ IF doc.client # "null" /\ doc.isConnected
     THEN /\ reqs' = [reqs EXCEPT ![r] = [pc |-> "disconnect:await", self |-> doc]]
          /\ UNCHANGED call
     ELSE /\ call' = RedisCall("disconnect", doc, doc, FALSE, Returned(Undefined))
          /\ UNCHANGED reqs
  /\ UNCHANGED <<doc, sysVars, users, reviews, reports>>

\* client.disconnect() resolves and the flag is cleared, or rejects: the
\* rejection leaves disconnect(), which has no try block
DisconnectSettle(r) ==
  /\ reqs[r].pc = "disconnect:await"
  /\ \E rejected \in BOOLEAN :
       /\ doc' = IF rejected THEN doc ELSE [doc EXCEPT !.isConnected = FALSE]
       /\ call' = RedisCall("disconnect", reqs[r].self, doc', rejected,
                            IF rejected THEN [thrown |-> "Error", value |-> Undefined]
                            ELSE Returned(Undefined))
  /\ reqs' = [reqs EXCEPT ![r] = Idle]
  /\ UNCHANGED <<sysVars, users, reviews, reports>>

\* a wrapper is called: the guard returns the fallback, or the underlying
\* call is made and awaited
WrapperStart(r, op) ==
  /\ reqs[r].pc = "idle"
  /\ IF NotReady(doc)
     THEN /\ call' = RedisCall(op, doc, doc, FALSE, Returned(Fallback(op)))
          /\ UNCHANGED reqs
     ELSE /\ reqs' = [reqs EXCEPT ![r] =
                        [pc |-> IF op = "deletePattern" THEN "deletePattern:keys"
                                ELSE "wrapper:await",
                         op |-> op, self |-> doc]]
          /\ UNCHANGED call
  /\ UNCHANGED <<doc, sysVars, users, reviews, reports>>

\* the underlying call of a wrapper resolves or rejects
WrapperSettle(r) ==
  /\ reqs[r].pc = "wrapper:await"
  /\ LET op == reqs[r].op
     IN \/ \E reply \in Replies(op) :
             call' = RedisCall(op, reqs[r].self, doc, FALSE, Returned(Return(op, reply)))
        \/ call' = RedisCall(op, reqs[r].self, doc, TRUE, Catch(op))
  /\ reqs' = [reqs EXCEPT ![r] = Idle]
  /\ UNCHANGED <<doc, sysVars, users, reviews, reports>>

\* deletePattern: client.keys(pattern) rejects, resolves with no key, or
\* resolves with keys and `await this.client.del(keys)` is reached
DeletePatternKeys(r) ==
  /\ reqs[r].pc = "deletePattern:keys"
  /\ \/ /\ call' = RedisCall("deletePattern", reqs[r].self, doc, TRUE, Catch("deletePattern"))
        /\ reqs' = [reqs EXCEPT ![r] = Idle]
     \/ /\ call' = RedisCall("deletePattern", reqs[r].self, doc, FALSE, Returned(Bool(TRUE)))
        /\ reqs' = [reqs EXCEPT ![r] = Idle]
     \/ /\ reqs' = [reqs EXCEPT ![r] = [pc |-> "deletePattern:del", self |-> reqs[r].self]]
        /\ UNCHANGED call
  /\ UNCHANGED <<doc, sysVars, users, reviews, reports>>

\* deletePattern: client.del(keys) resolves or rejects
DeletePatternDel(r) ==
  /\ reqs[r].pc = "deletePattern:del"
  /\ \/ call' = RedisCall("deletePattern", reqs[r].self, doc, FALSE, Returned(Bool(TRUE)))
     \/ call' = RedisCall("deletePattern", reqs[r].self, doc, TRUE, Catch("deletePattern"))
  /\ reqs' = [reqs EXCEPT ![r] = Idle]
  /\ UNCHANGED <<doc, sysVars, users, reviews, reports>>

\* SpecRedis: one RedisClient, its events, and two callers
InitRedis ==
  /\ doc = NewRedisClient
  /\ call = NoCall
  /\ IdleSystem
  /\ users = {}
  /\ reviews = {}
  /\ reports = <<>>
  /\ reqs = [r \in {1, 2} |-> Idle]

NextRedis ==
  \/ \E r \in {1, 2} :
       \/ ConnectStart(r)
       \/ ConnectSettle(r)
       \/ DisconnectStart(r)
       \/ DisconnectSettle(r)
       \/ \E op \in RedisOps : WrapperStart(r, op)
       \/ WrapperSettle(r)
       \/ DeletePatternKeys(r)
       \/ DeletePatternDel(r)
  \/ OnConnect
  \/ OnError

SpecRedis == InitRedis /\ [][NextRedis]_vars

\* the wrappers the claim names
ClaimedOps == RedisOps \ {"setex"}

\* C22 (SpecRedis): a wrapper (get, set, del, exists, expire, incr, lpush, rpop,
\* lrange, hset, hget, hgetall, deletePattern, info) never throws, and when the
\* client was not connected at the call or the underlying call failed it
\* returns its fallback, one of null, false, 0, [] and {}; connect() never
\* throws, and a connect() that failed leaves isConnected = false.
C22_GracefulFallback ==
  /\ call.name \in ClaimedOps =>
       /\ call.ret.thrown = "none"
       /\ (NotReady(call.self) \/ call.failed) =>
            /\ call.ret.value = Fallback(call.name)
            /\ call.ret.value \in {Null, Bool(FALSE), Num(0), Arr(<<>>), Obj(<<>>)}
  /\ call.name = "connect" =>
       /\ call.ret.thrown = "none"
       /\ call.failed => ~call.after.isConnected

\* a wrapper called on a connected client whose underlying call failed
C22_Witness ==
  /\ call.name \in ClaimedOps
  /\ ~NotReady(call.self)
  /\ call.failed
  /\ call.ret = Returned(Fallback(call.name))

---------------------------------------------------------------------------
\* C23 (SpecMethods): optimizeRoute is idempotent: applied to the route it
\* returned it returns that route again, also when several points are at the
\* same distance from the current point.
C23_Idempotent ==
  Optimized =>
    optimizeRoute([call.self EXCEPT !.route = call.ret]).ret = call.ret

\* a call that reordered the route and had to choose between two different
\* points at the same distance from the current one
C23_Witness ==
  /\ Optimized
  /\ call.ret # call.self.route
  /\ \E k \in 1..(Len(call.ret) - 2) : \E j \in (k + 2)..Len(call.ret) :
       /\ Distance(call.ret[j], call.ret[k]) = Distance(call.ret[k + 1], call.ret[k])
       /\ CoordOf(call.ret[j]) # CoordOf(call.ret[k + 1])

=============================================================================
